---- MODULE Spec2Model ----
(***************************************************************************)
(* A model of the volleyApp-React PDF match-report reader                  *)
(* (components/PdfReader.js): line reconstruction, team/player             *)
(* segmentation, the player-line parser, token-to-column mapping, the      *)
(* date/time detectors and the payload builder; and of the multipart       *)
(* upload helper, the AuthProvider session, the profile update payload,    *)
(* the UploadManager page and the list of completed uploads.               *)
(*                                                                         *)
(* JavaScript strings are modelled as sequences of one-character strings,  *)
(* so that trimming, splitting, regular-expression tests and number        *)
(* formatting are computed character by character as the code does.        *)
(* Chars("7:30pm") is the model of the JavaScript string "7:30pm".         *)
(***************************************************************************)
EXTENDS Integers, Sequences, FiniteSets, TLC

VARIABLES
    \* parsePlayerLine(line)
    line,                 \* the Line handed to parsePlayerLine: its tokens' str
    parsed,               \* the value returned (Pending before the call)
    \* extractPlayers(lines)
    lines,                \* the argument: a sequence of Lines (each its tokens' str)
    lineFacts,            \* per Line, the values the loop body computes from it
    index,                \* the loop variable (0-based, as in the code)
    currentTeam,          \* NullStr or the latest team header
    playersFound,
    lastPlayerLineIndex,  \* -1 until a player is emitted
    playersTotalCount,
    extracted,            \* the value returned (Pending while scanning)
    emittedAt,            \* history: the line index of each playersFound.push
    \* mapTokensToColumns(tokens, columnAnchors, columnLabels)
    safeTokens,           \* the stat tokens: text, x, width, height
    columnAnchors,        \* NullAnchors or a sequence of anchors
    columnLabels,
    result,               \* the array being filled, returned when mapPc = "done"
    occupied,
    tokenIndex,           \* how many tokens safeTokens.forEach has visited
    mapPc,                \* "start", "loop" or "done"
    \* groupLines(items)
    items,                \* the argument of the next call: str, x, y, width, height, page
    grouped,              \* the Lines returned by the latest call (NoArray before it)
    firstGrouped,         \* the Lines returned by the first call
    \* detectMatchMetadata(lines) and the state parsePDF stores from it
    metaLines,            \* the Lines scanned: each its tokens' str
    matchDate,            \* "" before the scan and when no date was detected
    matchTime,
    metaPc,               \* "start" or "done"
    \* buildMatchReportPayload({playersData, columnLabels, setColumns, ...})
    playersData,
    payloadColumnLabels,  \* its columnLabels argument
    setColumns,
    matchDateValue,
    matchTimeValue,
    payload,              \* Pending until it returns
    \* parsePDF, lines 862-869: the column layout of one document
    layoutLines,          \* relevantLines: each Line its tokens {str, x, width, height}
    layoutPlayers,        \* parsedPlayers: each its statTokens
    setColumnCount,       \* the component's state
    inferredAnchors,      \* columnAnchors of the latest parse, NullAnchors for null
    detectedSetCount,
    effectiveColumnLabels,
    layoutPc,             \* "start" (document chosen), "done" or "reset" (view reset)
    \* sliceFileIntoParts(file, chunkSizeBytes)
    sliceFile,            \* NullRec for a missing file, else [size |-> the file's size]
    sliceChunkSizeBytes,
    sliceOffset,          \* offset
    slicePartNumber,      \* partNumber
    sliceParts,           \* parts: each its partNumber and the bytes [from, to) of its chunk
    slicePc,              \* "start", "loop" or "done"
    \* uploadPartsSequentially({file, urls, chunkSizeBytes, signal, onProgress, fetcher, retries})
    uploadFile,           \* NullRec for a missing file, else [size |-> the file's size]
    urls,                 \* each entry its partNumber and its url
    uploadChunkSizeBytes,
    retries,
    canUseXHR,
    signalAborted,        \* signal.aborted
    urlIndex,             \* the position of the for loop in urls, from 1
    attempt,
    uploadedBytes,
    completedParts,
    partUploaded,         \* of the XMLHttpRequest in flight
    requests,             \* history: every request sent and how it ended
    progress,             \* history: every argument onProgress was called with
    uploadError,          \* NullStr or the message of the error thrown
    uploadPc,             \* "call", "attempt", "inflight", "sleep", "resolved" or "rejected"
    \* AuthProvider: the component's state, localStorage, and the calls in flight
    accessToken,          \* NullStr or the token
    user,                 \* NullRec or the normalized profile
    loading,
    headerOverrides,
    storedToken,          \* localStorage volleyplus_access_token, NullStr when not set
    storedUser,           \* localStorage volleyplus_user, NullRec when not set
    storedHeaders,        \* localStorage volleyplus_headers, NullRec when not set
    authCalls,            \* api.auth.login and api.auth.register calls not yet settled
    meCalls,              \* api.auth.me calls not yet settled: token captured, active, origin
    lastAuth,             \* history: the latest operation and the response it handled
    \* buildProfileUpdatePayload({currentUser, teamDraft, teamCountryDraft, playerNumberDraft})
    currentUser,          \* NullRec or its currentTeam, currentTeamCountry and playerNumber
    teamDraft,
    teamCountryDraft,     \* NullRec, [text |-> s] for a string, or [code |-> c, name |-> n]
    playerNumberDraft,
    profilePlan,          \* Pending until it returns {payload, hasChanges}
    \* VolleyPdfParser: the rest of the component's state, and the report being submitted
    tablePlayers,         \* players
    parseLoading,         \* loading
    parseError,           \* error
    isUploadVisible,
    isSubmitting,
    submitError,
    submitSuccess,
    toast,                \* NullRec or its message and tone
    parseInFlight,        \* the selections whose parsePDF call has not returned yet
    selections,           \* how many documents were selected so far (onFileChange events)
    shownSelection,       \* the selection the players shown were parsed from, 0 for none
    sent,                 \* history: each report submitted, the state it was built from, its outcome
    \* UploadManager: the component state and the upload chains it started
    managerFile,          \* file
    customFileBase,       \* customFileBase
    managerSession,       \* session
    managerParts,         \* parts
    managerStatus,        \* status
    managerError,         \* error
    managerProgress,      \* progress
    recentSuccess,        \* recentSuccess
    controllerRef,        \* controllerRef.current: the upload whose AbortController it holds, 0 for none
    controllers,          \* the AbortController made for each upload: "none", "live" or "aborted"
    uploads,              \* the createSession calls so far, each with the position of its async chain
    cancelPending,        \* cancelUpload calls waiting for api.upload.cancel
    recordedUploads,      \* the uploads recordCompletedUpload was called for, in order
    afterCancel,          \* what was done for an upload after cancelUpload was invoked for it
    \* completedUploadsStorage: localStorage and the calls of recordCompletedUpload
    storedUploads,        \* the object kept under STORAGE_KEY, by owner key; no key at all when nothing is stored
    lastEntry,            \* what the latest recordCompletedUpload call returned
    recordLog             \* the recordCompletedUpload calls so far, oldest first

parseVars == <<line, parsed>>
extractVars == <<lineFacts, lines, index, currentTeam, playersFound, lastPlayerLineIndex,
                 playersTotalCount, extracted, emittedAt>>
mapVars == <<safeTokens, columnAnchors, columnLabels, result, occupied, tokenIndex, mapPc>>
groupVars == <<items, grouped, firstGrouped>>
metaVars == <<metaLines, matchDate, matchTime, metaPc>>
payloadVars == <<playersData, payloadColumnLabels, setColumns, matchDateValue, matchTimeValue,
                 payload>>
layoutVars == <<layoutLines, layoutPlayers, setColumnCount, inferredAnchors, detectedSetCount,
                effectiveColumnLabels, layoutPc>>
sliceVars == <<sliceFile, sliceChunkSizeBytes, sliceOffset, slicePartNumber, sliceParts, slicePc>>
uploadVars == <<uploadFile, urls, uploadChunkSizeBytes, retries, canUseXHR, signalAborted, urlIndex, attempt, uploadedBytes, completedParts, partUploaded, requests, progress, uploadError, uploadPc>>
authVars == <<accessToken, user, loading, headerOverrides, storedToken, storedUser, storedHeaders, authCalls, meCalls, lastAuth>>
profileVars == <<currentUser, teamDraft, teamCountryDraft, playerNumberDraft, profilePlan>>
submitVars == <<tablePlayers, parseLoading, parseError, isUploadVisible, isSubmitting, submitError, submitSuccess, toast, parseInFlight, selections, shownSelection, sent>>
managerVars == <<managerFile, customFileBase, managerSession, managerParts, managerStatus, managerError, managerProgress, recentSuccess, controllerRef, controllers, uploads, cancelPending, recordedUploads, afterCancel>>
storageVars == <<storedUploads, lastEntry, recordLog>>
vars == <<parseVars, extractVars, mapVars, groupVars, metaVars, payloadVars, layoutVars,
         sliceVars,
         uploadVars,
         authVars,
         profileVars,
         submitVars,
         managerVars,
         storageVars>>

\* what the steps of one operation leave alone: the other operations' variables
exceptParse == <<extractVars, mapVars, groupVars, metaVars, payloadVars, layoutVars,
    sliceVars,
    uploadVars,
    authVars,
    profileVars,
    submitVars,
    managerVars,
    storageVars>>
exceptExtract == <<parseVars, mapVars, groupVars, metaVars, payloadVars, layoutVars,
    sliceVars,
    uploadVars,
    authVars,
    profileVars,
    submitVars,
    managerVars,
    storageVars>>
exceptMap == <<parseVars, extractVars, groupVars, metaVars, payloadVars, layoutVars,
    sliceVars,
    uploadVars,
    authVars,
    profileVars,
    submitVars,
    managerVars,
    storageVars>>
exceptGroup == <<parseVars, extractVars, mapVars, metaVars, payloadVars, layoutVars,
    sliceVars,
    uploadVars,
    authVars,
    profileVars,
    submitVars,
    managerVars,
    storageVars>>
exceptMeta == <<parseVars, extractVars, mapVars, groupVars, payloadVars, layoutVars,
    sliceVars,
    uploadVars,
    authVars,
    profileVars,
    submitVars,
    managerVars,
    storageVars>>
exceptPayload == <<parseVars, extractVars, mapVars, groupVars, metaVars, layoutVars,
    sliceVars,
    uploadVars,
    authVars,
    profileVars,
    submitVars,
    managerVars,
    storageVars>>
exceptLayout == <<parseVars, extractVars, mapVars, groupVars, metaVars, payloadVars,
    sliceVars,
    uploadVars,
    authVars,
    profileVars,
    submitVars,
    managerVars,
    storageVars>>
exceptSlice == <<parseVars, extractVars, mapVars, groupVars, metaVars, payloadVars, layoutVars,
    uploadVars,
    authVars,
    profileVars,
    submitVars,
    managerVars,
    storageVars>>
exceptUpload == <<parseVars, extractVars, mapVars, groupVars, metaVars, payloadVars, layoutVars, sliceVars,
    authVars,
    profileVars,
    submitVars,
    managerVars,
    storageVars>>
exceptAuth == <<parseVars, extractVars, mapVars, groupVars, metaVars, payloadVars, layoutVars, sliceVars, uploadVars,
    profileVars,
    submitVars,
    managerVars,
    storageVars>>
exceptProfile == <<parseVars, extractVars, mapVars, groupVars, metaVars, payloadVars, layoutVars, sliceVars, uploadVars, authVars,
    submitVars,
    managerVars,
    storageVars>>
\* submitting the report also reads and resets setColumnCount, matchDate and matchTime
exceptSubmit == <<parseVars, extractVars, mapVars, groupVars, payloadVars, sliceVars, uploadVars,
    authVars, profileVars, layoutLines, layoutPlayers, inferredAnchors, detectedSetCount,
    effectiveColumnLabels, layoutPc, metaLines, metaPc,
    managerVars,
    storageVars>>
exceptManager == <<parseVars, extractVars, mapVars, groupVars, metaVars, payloadVars, layoutVars, sliceVars, uploadVars, authVars, profileVars, submitVars,
    storageVars>>
exceptStorage == <<parseVars, extractVars, mapVars, groupVars, metaVars, payloadVars, layoutVars, sliceVars, uploadVars, authVars, profileVars, submitVars, managerVars>>

-----------------------------------------------------------------------------
(* Strings *)

Chars(s) == [i \in 1..Len(s) |-> SubSeq(s, i, i)]

\* null / undefined where the code expects a string, and where it expects an object
NullStr == <<"null">>
NullRec == [null |-> TRUE]
Pending == [pending |-> TRUE]
\* the same where the value, once there, is an array
NoArray == <<Pending>>

DigitSeq == Chars("0123456789")
UpperSeq == Chars("ABCDEFGHIJKLMNOPQRSTUVWXYZ")
LowerSeq == Chars("abcdefghijklmnopqrstuvwxyz")
DigitSet == {DigitSeq[i] : i \in 1..10}
UpperSet == {UpperSeq[i] : i \in 1..26}
LowerSet == {LowerSeq[i] : i \in 1..26}

IsDigit(c) == c \in DigitSet
IsSpace(c) == c = " "
IsAsciiLetter(c) == c \in UpperSet \cup LowerSet
NotSpace(c) == ~IsSpace(c)

DigitValue(c) == (CHOOSE i \in 1..10 : DigitSeq[i] = c) - 1
DigitChar(n) == DigitSeq[n + 1]

toLowerChar(c) == IF c \in UpperSet THEN LowerSeq[CHOOSE i \in 1..26 : UpperSeq[i] = c] ELSE c
toLowerCase(s) == [i \in 1..Len(s) |-> toLowerChar(s[i])]

RECURSIVE trimStart(_)
trimStart(s) == IF s # <<>> /\ IsSpace(Head(s)) THEN trimStart(Tail(s)) ELSE s

RECURSIVE trimEnd(_)
trimEnd(s) == IF s # <<>> /\ IsSpace(s[Len(s)]) THEN trimEnd(SubSeq(s, 1, Len(s) - 1)) ELSE s

trim(s) == trimEnd(trimStart(s))

\* s.startsWith(p) from position i (1-based)
MatchesAt(s, p, i) == i + Len(p) - 1 <= Len(s) /\ SubSeq(s, i, i + Len(p) - 1) = p

\* s.indexOf(p), 1-based; 0 when absent
indexOf(s, p) ==
    IF \E i \in 1..Len(s) : MatchesAt(s, p, i)
    THEN CHOOSE i \in 1..Len(s) : MatchesAt(s, p, i) /\ \A j \in 1..(i - 1) : ~MatchesAt(s, p, j)
    ELSE 0

includes(s, p) == indexOf(s, p) > 0

\* s.split(/\s+/).filter(Boolean)
RECURSIVE splitWhitespace(_)
splitWhitespace(s) ==
    LET t == trimStart(s) IN
    IF t = <<>> THEN <<>>
    ELSE LET n == IF \E i \in 1..Len(t) : IsSpace(t[i])
                  THEN (CHOOSE i \in 1..Len(t) : IsSpace(t[i]) /\ \A j \in 1..(i - 1) : ~IsSpace(t[j])) - 1
                  ELSE Len(t)
         IN <<SubSeq(t, 1, n)>> \o splitWhitespace(SubSeq(t, n + 1, Len(t)))

\* parts.join(sep)
RECURSIVE join(_, _)
join(parts, sep) ==
    IF parts = <<>> THEN <<>>
    ELSE IF Len(parts) = 1 THEN parts[1]
    ELSE parts[1] \o sep \o join(Tail(parts), sep)

\* s.replace(/\s{2,}/g, " ")
RECURSIVE collapseSpaces(_)
collapseSpaces(s) ==
    IF Len(s) < 2 THEN s
    ELSE IF IsSpace(s[1]) /\ IsSpace(s[2]) THEN collapseSpaces(Tail(s))
    ELSE <<s[1]>> \o collapseSpaces(Tail(s))

\* Number(digits) for a string of decimal digits (Number("") is 0)
RECURSIVE toNumber(_)
toNumber(ds) == IF ds = <<>> THEN 0 ELSE 10 * toNumber(SubSeq(ds, 1, Len(ds) - 1)) + DigitValue(ds[Len(ds)])

\* String(n) for a natural number
RECURSIVE toString(_)
toString(n) == IF n < 10 THEN <<DigitChar(n)>> ELSE toString(n \div 10) \o <<DigitChar(n % 10)>>

AllDigits(s) == s # <<>> /\ \A i \in 1..Len(s) : IsDigit(s[i])

-----------------------------------------------------------------------------
(* Player-line parser *)

\* STAT_TOKEN_REGEX = /^([+-]?\d+(?:[.,]\d+)?%?)$/
STAT_TOKEN_REGEX(s) ==
    LET unsigned == IF s # <<>> /\ s[1] \in {"+", "-"} THEN Tail(s) ELSE s
        body == IF unsigned # <<>> /\ unsigned[Len(unsigned)] = "%"
                THEN SubSeq(unsigned, 1, Len(unsigned) - 1) ELSE unsigned
    IN  \/ AllDigits(body)
        \/ \E k \in 2..(Len(body) - 1) :
              /\ body[k] \in {".", ","}
              /\ AllDigits(SubSeq(body, 1, k - 1))
              /\ AllDigits(SubSeq(body, k + 1, Len(body)))

isStatValue(value) ==
    LET normalized == trim(value) IN
    /\ value # <<>>
    /\ normalized # <<>>
    /\ \/ normalized = <<".">>
       \/ normalized = <<"-">>
       \/ STAT_TOKEN_REGEX(normalized)

\* /^L+$/i.test(text.replace(/[^A-Za-z]/g, ""))
IsLiberoMarker(text) ==
    LET letters == SelectSeq(text, IsAsciiLetter) IN
    letters # <<>> /\ \A i \in 1..Len(letters) : letters[i] \in {"L", "l"}

\* splitTokenText(token), the str of each piece
splitTokenText(str) ==
    IF ~(\E i \in 1..Len(str) : IsSpace(str[i])) THEN <<str>>
    ELSE LET parts == splitWhitespace(str) IN
         IF Len(parts) <= 1 THEN <<str>> ELSE parts

RECURSIVE flatMapSplit(_)
flatMapSplit(tokens) ==
    IF tokens = <<>> THEN <<>> ELSE splitTokenText(Head(tokens)) \o flatMapSplit(Tail(tokens))

NonEmpty(s) == s # <<>>

\* line.tokens.flatMap(splitTokenText).map(text: str.trim()).filter(text)
FlattenTokens(tokens) ==
    LET pieces == flatMapSplit(tokens) IN
    SelectSeq([i \in 1..Len(pieces) |-> trim(pieces[i])], NonEmpty)

\* getLineText(line)
getLineText(tokens) ==
    LET trimmed == SelectSeq([i \in 1..Len(tokens) |-> trim(tokens[i])], NonEmpty) IN
    trim(collapseSpaces(join(trimmed, <<" ">>)))

\* a faulty variant of IsNumberToken: four digits are accepted
IsNumberTokenUpTo4(text) ==
    LET raw == SelectSeq(text, NotSpace)
        digits == SelectSeq(raw, IsDigit)
        remainder == SelectSeq(raw, IsAsciiLetter)
    IN  /\ digits # <<>>
        /\ Len(digits) <= 4
        /\ (remainder # <<>> => \A i \in 1..Len(remainder) : remainder[i] \in {"L", "l"})

\* the test of one candidate number token (loop body of lines 531-542)
IsNumberToken(text) ==
    LET raw == SelectSeq(text, NotSpace)
        digits == SelectSeq(raw, IsDigit)
        remainder == SelectSeq(raw, IsAsciiLetter)
    IN  /\ digits # <<>>
        /\ Len(digits) <= 3
        /\ (remainder # <<>> => \A i \in 1..Len(remainder) : remainder[i] \in {"L", "l"})

\* numberIndex (1-based; 0 for the code's -1)
FindNumberIndex(tokens) ==
    LET limit == IF Len(tokens) < 3 THEN Len(tokens) ELSE 3 IN
    IF \E i \in 1..limit : IsNumberToken(tokens[i])
    THEN CHOOSE i \in 1..limit : IsNumberToken(tokens[i]) /\ \A j \in 1..(i - 1) : ~IsNumberToken(tokens[j])
    ELSE 0

\* a faulty variant of stripLiberoMarkers: the markers are kept
KeepLiberoMarkers(remainingTokens) == remainingTokens

\* the while loop of lines 548-550
RECURSIVE stripLiberoMarkers(_)
stripLiberoMarkers(remainingTokens) ==
    IF remainingTokens # <<>> /\ IsLiberoMarker(Head(remainingTokens))
    THEN stripLiberoMarkers(Tail(remainingTokens))
    ELSE remainingTokens

\* text.replace(/[^A-Za-zÀ-ÿ'\-\s]/g, "") is non-empty
IsNameChar(c) == IsAsciiLetter(c) \/ c \in {"'", "-", " "}
HasNameChars(text) == \E i \in 1..Len(text) : IsNameChar(text[i])

\* a faulty variant of PartitionStep: the stat flag is not sticky, a later
\* name-like token goes back to the name
PartitionStepNotSticky(acc, text) ==
    IF ~isStatValue(text)
    THEN IF ~HasNameChars(text) THEN acc
         ELSE [acc EXCEPT !.nameParts = Append(@, text)]
    ELSE [acc EXCEPT !.collectingStats = TRUE, !.statTokens = Append(@, text)]

\* the body of remainingTokens.forEach (lines 556-565)
PartitionStep(acc, text) ==
    IF ~acc.collectingStats /\ ~isStatValue(text)
    THEN IF ~HasNameChars(text) THEN acc
         ELSE [acc EXCEPT !.nameParts = Append(@, text)]
    ELSE [acc EXCEPT !.collectingStats = TRUE, !.statTokens = Append(@, text)]

RECURSIVE PartitionTokens(_, _)
PartitionTokens(acc, remainingTokens) ==
    IF remainingTokens = <<>> THEN acc
    ELSE PartitionTokens(PartitionStep(acc, Head(remainingTokens)), Tail(remainingTokens))

parsePlayerLine(lineTokens) ==
    LET tokens == FlattenTokens(lineTokens)
        numberIndex == FindNumberIndex(tokens)
    IN  IF tokens = <<>> \/ numberIndex = 0 THEN NullRec
        ELSE LET numberText == SelectSeq(SelectSeq(tokens[numberIndex], NotSpace), IsDigit)
                 remainingTokens == stripLiberoMarkers(SubSeq(tokens, numberIndex + 1, Len(tokens)))
                 acc == PartitionTokens(
                            [nameParts |-> <<>>, statTokens |-> <<>>, collectingStats |-> FALSE],
                            remainingTokens)
                 name == trim(join(acc.nameParts, <<" ">>))
             IN  IF name = <<>> THEN NullRec
                 ELSE [number |-> toNumber(numberText),
                       name |-> name,
                       rawStats |-> acc.statTokens,
                       lineText |-> getLineText(lineTokens),
                       statTokens |-> [i \in 1..Len(acc.statTokens) |-> [text |-> acc.statTokens[i]]]]

-----------------------------------------------------------------------------
(* Team/section segmenter *)

\* TEAM_HEADER_EXCLUSION_REGEX = /(vote|points|serve|reception|attack|tot|err|pos%|coach|set)/i
ExclusionKeywords ==
    {Chars("vote"), Chars("points"), Chars("serve"), Chars("reception"), Chars("attack"),
     Chars("tot"), Chars("err"), Chars("pos%"), Chars("coach"), Chars("set")}

\* keywordMatch.index (1-based; 0 when the regex does not match)
KeywordMatchIndex(lower) ==
    LET hit(i) == \E k \in ExclusionKeywords : MatchesAt(lower, k, i) IN
    IF \E i \in 1..Len(lower) : hit(i)
    THEN CHOOSE i \in 1..Len(lower) : hit(i) /\ \A j \in 1..(i - 1) : ~hit(j)
    ELSE 0

RECURSIVE stripTrailingDigits(_)
stripTrailingDigits(s) ==
    IF s # <<>> /\ IsDigit(s[Len(s)]) THEN stripTrailingDigits(SubSeq(s, 1, Len(s) - 1)) ELSE s

\* s.replace(/\s*\d+\s*-\s*\d+\s*$/, "")
stripTrailingScore(s) ==
    LET a == trimEnd(s)
        b == stripTrailingDigits(a)
        c == trimEnd(b)
        d == IF c # <<>> /\ c[Len(c)] = "-" THEN SubSeq(c, 1, Len(c) - 1) ELSE c
        e == trimEnd(d)
        f == stripTrailingDigits(e)
        g == trimEnd(f)
    IN  IF b # a /\ d # c /\ f # e THEN g ELSE s

\* s.replace(/\d+/g, " ")
RECURSIVE digitRunsToSpace(_)
digitRunsToSpace(s) ==
    IF s = <<>> THEN <<>>
    ELSE IF IsDigit(s[1])
         THEN IF Len(s) >= 2 /\ IsDigit(s[2]) THEN digitRunsToSpace(Tail(s))
              ELSE <<" ">> \o digitRunsToSpace(Tail(s))
         ELSE <<s[1]>> \o digitRunsToSpace(Tail(s))

\* /^[A-ZÀ-Ú0-9][A-Za-zÀ-ú0-9' ]*$/.test(chunk), over the ASCII alphabet
isValidChunk(chunk) ==
    /\ chunk # <<>>
    /\ chunk[1] \in UpperSet \cup DigitSet
    /\ \A i \in 2..Len(chunk) : IsAsciiLetter(chunk[i]) \/ IsDigit(chunk[i]) \/ chunk[i] \in {"'", " "}

\* s.split("-")
RECURSIVE splitHyphen(_)
splitHyphen(s) ==
    IF \E i \in 1..Len(s) : s[i] = "-"
    THEN LET n == CHOOSE i \in 1..Len(s) : s[i] = "-" /\ \A j \in 1..(i - 1) : s[j] # "-"
         IN  <<SubSeq(s, 1, n - 1)>> \o splitHyphen(SubSeq(s, n + 1, Len(s)))
    ELSE <<s>>

ValidTrimmedChunk(s) == s # <<>> /\ isValidChunk(s)

detectTeamHeader(text) ==
    LET normalized == trim(collapseSpaces(text))
        lower == toLowerCase(normalized)
        keywordIndex == KeywordMatchIndex(lower)
        trimmedBeforeKeywords ==
            IF keywordIndex > 0 THEN trim(SubSeq(normalized, 1, keywordIndex - 1)) ELSE normalized
        withoutScores == trim(stripTrailingDigits(stripTrailingScore(trimmedBeforeKeywords)))
        cleanText == trim(collapseSpaces(digitRunsToSpace(withoutScores)))
        rawParts == splitHyphen(cleanText)
        parts == SelectSeq([i \in 1..Len(rawParts) |-> trim(rawParts[i])], ValidTrimmedChunk)
    IN  IF text = <<>> \/ normalized = <<>> THEN NullStr
        ELSE IF trimmedBeforeKeywords = <<>> THEN NullStr
        ELSE IF withoutScores = <<>> THEN NullStr
        ELSE IF includes(cleanText, <<"-">>)
             THEN IF Len(parts) >= 1 THEN join(parts, Chars(" - ")) ELSE NullStr
        ELSE IF isValidChunk(cleanText) THEN cleanText
        ELSE NullStr

\* one or more spaces from position i; the position after them (0 if none)
RECURSIVE skipSpaces(_, _)
skipSpaces(s, i) == IF i <= Len(s) /\ IsSpace(s[i]) THEN skipSpaces(s, i + 1) ELSE i

\* SECTION_END_REGEX = /^(Points\s+won|Head\s+Coach|Assistant|Set\s+\d+)/i
isSectionTerminator(text) ==
    LET lower == toLowerCase(text)
        twoWords(a, b) ==
            /\ MatchesAt(lower, a, 1)
            /\ skipSpaces(lower, Len(a) + 1) > Len(a) + 1
            /\ MatchesAt(lower, b, skipSpaces(lower, Len(a) + 1))
        setNumber ==
            /\ MatchesAt(lower, Chars("set"), 1)
            /\ skipSpaces(lower, 4) > 4
            /\ skipSpaces(lower, 4) <= Len(lower)
            /\ IsDigit(lower[skipSpaces(lower, 4)])
    IN  \/ twoWords(Chars("points"), Chars("won"))
        \/ twoWords(Chars("head"), Chars("coach"))
        \/ MatchesAt(lower, Chars("assistant"), 1)
        \/ setNumber

\* normalizedText.includes("players total")
IsPlayersTotal(text) == includes(toLowerCase(text), Chars("players total"))

TeamAlpha == <<Chars("TEAM ALPHA")>>
TeamBeta == <<Chars("TEAM BETA")>>
AnaLine == <<Chars("7"), Chars("Ana Silva"), Chars("12"), Chars("."), Chars("3"), Chars("88%")>>
InesLine == <<Chars("9"), Chars("Ines Costa"), Chars("5"), Chars("-"), Chars("1"), Chars("70%")>>
PlayersTotalLine == <<Chars("Players Total")>>

LinePool ==
    {TeamAlpha, AnaLine, PlayersTotalLine, InesLine,
     <<Chars("Set"), Chars("1")>>, <<Chars("Head Coach")>>, <<Chars(" ")>>,
     <<Chars("vote"), Chars("12")>>, <<Chars("Points won")>>, <<Chars("Assistant Coach")>>}

\* the end-to-end scenario of the specification (section 8, item 5)
ScenarioLines == <<TeamAlpha, AnaLine, PlayersTotalLine, TeamBeta, InesLine, PlayersTotalLine>>

\* what the loop body computes from one line (lines 665-693), tabulated once
\* for the lines of the model
LineFacts ==
    [l \in LinePool \cup {TeamBeta} |->
        LET text == getLineText(l) IN
        [text |-> text,
         playersTotal |-> IsPlayersTotal(text),
         teamHeader |-> detectTeamHeader(text),
         sectionTerminator |-> isSectionTerminator(text),
         possiblePlayer |-> parsePlayerLine(l)]]

\* the current line of the loop
CurrentLine == lines[index + 1]

CurrentText == lineFacts[CurrentLine].text
CurrentIsPlayersTotal == lineFacts[CurrentLine].playersTotal
CurrentTeamHeader == lineFacts[CurrentLine].teamHeader
CurrentIsTerminator == lineFacts[CurrentLine].sectionTerminator
CurrentPlayer == lineFacts[CurrentLine].possiblePlayer

Scanning == extracted = Pending /\ index < Len(lines)

NextLine == index' = index + 1

\* if (!text) continue
SkipEmptyLine ==
    /\ Scanning
    /\ CurrentText = <<>>
    /\ NextLine
    /\ UNCHANGED <<exceptExtract, lineFacts, lines, currentTeam, playersFound, lastPlayerLineIndex,
                   playersTotalCount, extracted, emittedAt>>

\* a faulty variant of CutoffIndex: the terminator line's own index
CutoffAtTerminator(i) == i

\* cutoffIndex (line 673), at loop index i
CutoffIndex(i) == IF lastPlayerLineIndex >= 0 THEN lastPlayerLineIndex ELSE i - 1

\* a faulty variant of PlayersTotalReset: the team is kept
PlayersTotalKeepsTeam ==
    /\ Scanning
    /\ CurrentText # <<>>
    /\ CurrentIsPlayersTotal
    /\ playersTotalCount + 1 < 2
    /\ playersTotalCount' = playersTotalCount + 1
    /\ NextLine
    /\ UNCHANGED <<exceptExtract, lineFacts, lines, currentTeam, playersFound, lastPlayerLineIndex,
                   extracted, emittedAt>>

\* the first "players total" line: reset the team and go on
PlayersTotalReset ==
    /\ Scanning
    /\ CurrentText # <<>>
    /\ CurrentIsPlayersTotal
    /\ playersTotalCount + 1 < 2
    /\ playersTotalCount' = playersTotalCount + 1
    /\ currentTeam' = NullStr
    /\ NextLine
    /\ UNCHANGED <<exceptExtract, lineFacts, lines, playersFound, lastPlayerLineIndex, extracted, emittedAt>>

\* the second "players total" line: return early
PlayersTotalReturn ==
    /\ Scanning
    /\ CurrentText # <<>>
    /\ CurrentIsPlayersTotal
    /\ playersTotalCount + 1 >= 2
    /\ playersTotalCount' = playersTotalCount + 1
    /\ extracted' = [players |-> playersFound, lastPlayerLineIndex |-> CutoffIndex(index)]
    /\ UNCHANGED <<exceptExtract, lineFacts, lines, index, currentTeam, playersFound, lastPlayerLineIndex, emittedAt>>

TeamHeaderLine ==
    /\ Scanning
    /\ CurrentText # <<>>
    /\ ~CurrentIsPlayersTotal
    /\ CurrentTeamHeader \notin {NullStr, <<>>}
    /\ currentTeam' = CurrentTeamHeader
    /\ NextLine
    /\ UNCHANGED <<exceptExtract, lineFacts, lines, playersFound, lastPlayerLineIndex, playersTotalCount,
                   extracted, emittedAt>>

SectionTerminatorLine ==
    /\ Scanning
    /\ CurrentText # <<>>
    /\ ~CurrentIsPlayersTotal
    /\ CurrentTeamHeader \in {NullStr, <<>>}
    /\ CurrentIsTerminator
    /\ currentTeam' = NullStr
    /\ NextLine
    /\ UNCHANGED <<exceptExtract, lineFacts, lines, playersFound, lastPlayerLineIndex, playersTotalCount,
                   extracted, emittedAt>>

OrdinaryLine ==
    /\ Scanning
    /\ CurrentText # <<>>
    /\ ~CurrentIsPlayersTotal
    /\ CurrentTeamHeader \in {NullStr, <<>>}
    /\ ~CurrentIsTerminator

\* if (!currentTeam) continue
NoTeamLine ==
    /\ OrdinaryLine
    /\ currentTeam = NullStr
    /\ NextLine
    /\ UNCHANGED <<exceptExtract, lineFacts, lines, currentTeam, playersFound, lastPlayerLineIndex,
                   playersTotalCount, extracted, emittedAt>>

\* if (!possiblePlayer) continue
NotPlayerLine ==
    /\ OrdinaryLine
    /\ currentTeam # NullStr
    /\ CurrentPlayer = NullRec
    /\ NextLine
    /\ UNCHANGED <<exceptExtract, lineFacts, lines, currentTeam, playersFound, lastPlayerLineIndex,
                   playersTotalCount, extracted, emittedAt>>

WithTeam(player, team) ==
    [number |-> player.number, name |-> player.name, rawStats |-> player.rawStats,
     lineText |-> player.lineText, statTokens |-> player.statTokens, team |-> team]

EmitPlayer ==
    /\ OrdinaryLine
    /\ currentTeam # NullStr
    /\ CurrentPlayer # NullRec
    /\ playersFound' = Append(playersFound, WithTeam(CurrentPlayer, currentTeam))
    /\ lastPlayerLineIndex' = index
    /\ emittedAt' = Append(emittedAt, index)
    /\ NextLine
    /\ UNCHANGED <<exceptExtract, lineFacts, lines, currentTeam, playersTotalCount, extracted>>

\* the loop ran to the end of lines
ReturnAtEnd ==
    /\ extracted = Pending
    /\ index >= Len(lines)
    /\ extracted' = [players |-> playersFound, lastPlayerLineIndex |-> lastPlayerLineIndex]
    /\ UNCHANGED <<exceptExtract, lineFacts, lines, index, currentTeam, playersFound, lastPlayerLineIndex,
                   playersTotalCount, emittedAt>>

-----------------------------------------------------------------------------
(* Grouping by team *)

\* player.team || "Equipe"
TeamNameOf(player) ==
    IF player.team = NullStr \/ player.team = <<>> THEN Chars("Equipe") ELSE player.team

\* the keys of the reduce accumulator, in insertion order (Object.entries
\* order for keys that are not integer-like; a team name never is)
RECURSIVE TeamOrder(_, _)
TeamOrder(players, seen) ==
    IF players = <<>> THEN seen
    ELSE LET t == TeamNameOf(Head(players)) IN
         IF \E i \in 1..Len(seen) : seen[i] = t
         THEN TeamOrder(Tail(players), seen)
         ELSE TeamOrder(Tail(players), Append(seen, t))

\* insertion of p after every element whose number is <= p.number
RECURSIVE InsertByNumber(_, _)
InsertByNumber(sorted, p) ==
    IF sorted = <<>> THEN <<p>>
    ELSE IF Head(sorted).number <= p.number
         THEN <<Head(sorted)>> \o InsertByNumber(Tail(sorted), p)
         ELSE <<p>> \o sorted

\* a faulty variant of SortByNumber: the players stay in input order
KeepTeamOrder(players) == players

\* [...teamPlayers].sort((a, b) => a.number - b.number), a stable sort
RECURSIVE SortByNumber(_)
SortByNumber(players) ==
    IF players = <<>> THEN <<>>
    ELSE InsertByNumber(SortByNumber(SubSeq(players, 1, Len(players) - 1)), players[Len(players)])

groupPlayersByTeam(players) ==
    LET order == TeamOrder(players, <<>>) IN
    [i \in 1..Len(order) |->
        LET InTeam(p) == TeamNameOf(p) = order[i] IN
        [team |-> order[i], players |-> SortByNumber(SelectSeq(players, InTeam))]]

-----------------------------------------------------------------------------
(* Column labels and the token-to-column mapper *)

DEFAULT_SET_COLUMNS == 4
MAX_SET_COLUMNS == 5
COLUMN_TOLERANCE == 14
HEIGHT_TOLERANCE == 5
OVERLAP_PENALTY == 25
EMPTY_VALUE_PLACEHOLDER == <<".">>

NullAnchors == <<NullRec>>

PostSetLabels ==
    <<"Vote",
      "Points Tot", "Brake Points", "Points Won - Lost",
      "Serves Tot", "Serves Err", "Serves Pts",
      "Receptions Tot", "Receptions Err", "Receptions Pos%", "Receptions Exc%",
      "Attacks Tot", "Attacks Err", "Attacks Blocked", "Attacks Pts", "Attacks Pts%", "BK Pts">>

SetLabels == <<"1", "2", "3", "4", "5">>

Min(a, b) == IF a < b THEN a ELSE b
Max(a, b) == IF a > b THEN a ELSE b
Abs(a) == IF a < 0 THEN -a ELSE a

\* a faulty variant of buildTableColumnLabels: 16 columns follow the sets
buildTableColumnLabelsWithoutVote(setCount) ==
    SubSeq(SetLabels, 1, Min(Max(1, IF setCount = 0 THEN DEFAULT_SET_COLUMNS ELSE setCount),
                             MAX_SET_COLUMNS))
    \o Tail(PostSetLabels)

\* buildTableColumnLabels(setCount); setCount 0 stands for a falsy argument
buildTableColumnLabels(setCount) ==
    LET clampedSets == Min(Max(1, IF setCount = 0 THEN DEFAULT_SET_COLUMNS ELSE setCount),
                           MAX_SET_COLUMNS)
    IN  SubSeq(SetLabels, 1, clampedSets) \o PostSetLabels

NotParen(c) == c \notin {"(", ")"}

\* normalizeTokenText(value): value.replace(/[()]/g, "").trim(), "" for a non-string
normalizeTokenText(value) ==
    IF value = NullStr THEN <<>> ELSE trim(SelectSeq(value, NotParen))

\* { start, end, center, height } of a token at x with the given width; the
\* centre is kept doubled (2 * x + width) so that width / 2 stays an integer
AnchorOf(x, width, height) ==
    [start |-> x, end |-> x + width, center2 |-> 2 * x + width, height |-> height]

\* labels (lines 261-263)
LabelsUsed(labelsArg) ==
    IF Len(labelsArg) > 0 THEN labelsArg ELSE buildTableColumnLabels(DEFAULT_SET_COLUMNS)

\* a faulty variant of PositionalValues: an empty cell is left empty
PositionalValuesNoPlaceholder(toks, labels) ==
    [i \in 1..Len(labels) |->
        IF i <= Len(toks) THEN normalizeTokenText(toks[i].text) ELSE <<>>]

\* the positional fallback (lines 267-271)
PositionalValues(toks, labels) ==
    [i \in 1..Len(labels) |->
        LET value == IF i <= Len(toks) THEN normalizeTokenText(toks[i].text) ELSE <<>>
        IN  IF value # <<>> THEN value ELSE EMPTY_VALUE_PLACEHOLDER]

\* the score of one anchor for one token (lines 292-299), doubled
Score2(anchor, token) ==
    LET start == token.x
        end == start + token.width
        center2 == 2 * start + token.width
        overlapsHorizontally ==
            \/ start >= anchor.start - COLUMN_TOLERANCE /\ start <= anchor.end + COLUMN_TOLERANCE
            \/ end >= anchor.start - COLUMN_TOLERANCE /\ end <= anchor.end + COLUMN_TOLERANCE
            \/ start <= anchor.start /\ end >= anchor.end
        heightDiff == IF anchor.height # 0 THEN Abs(anchor.height - token.height) ELSE 0
        heightPenalty == IF heightDiff > HEIGHT_TOLERANCE THEN heightDiff ELSE 0
    IN  Abs(anchor.center2 - center2) + 2 * heightPenalty
           + (IF overlapsHorizontally THEN 0 ELSE 2 * OVERLAP_PENALTY)

\* a faulty variant of BestIndex: occupied anchors are candidates too
BestIndexAmongAll(anchors, occ, token) ==
    LET all == 1..Len(anchors) IN
    IF all = {} THEN 0
    ELSE CHOOSE i \in all :
            \A j \in all : \/ Score2(anchors[i], token) < Score2(anchors[j], token)
                           \/ Score2(anchors[i], token) = Score2(anchors[j], token) /\ i <= j

\* bestIndex (1-based; 0 for the code's -1): the first unoccupied anchor of
\* minimal score
BestIndex(anchors, occ, token) ==
    LET free == {i \in 1..Len(anchors) : ~occ[i]} IN
    IF free = {} THEN 0
    ELSE CHOOSE i \in free :
            \A j \in free : \/ Score2(anchors[i], token) < Score2(anchors[j], token)
                            \/ Score2(anchors[i], token) = Score2(anchors[j], token) /\ i <= j

AnchorsUsable == columnAnchors # NullAnchors /\ Len(columnAnchors) = Len(LabelsUsed(columnLabels))

\* lines 266-272: no usable anchors, the positional fallback is returned
MapPositional ==
    /\ mapPc = "start"
    /\ ~AnchorsUsable
    /\ result' = PositionalValues(safeTokens, LabelsUsed(columnLabels))
    /\ mapPc' = "done"
    /\ UNCHANGED <<exceptMap, safeTokens, columnAnchors, columnLabels, occupied, tokenIndex>>

\* lines 274-275
MapBegin ==
    /\ mapPc = "start"
    /\ AnchorsUsable
    /\ result' = [i \in 1..Len(LabelsUsed(columnLabels)) |-> EMPTY_VALUE_PLACEHOLDER]
    /\ occupied' = [i \in 1..Len(columnAnchors) |-> FALSE]
    /\ tokenIndex' = 0
    /\ mapPc' = "loop"
    /\ UNCHANGED <<exceptMap, safeTokens, columnAnchors, columnLabels>>

CurrentToken == safeTokens[tokenIndex + 1]
CurrentValue == normalizeTokenText(CurrentToken.text)

\* if (!value) return
MapSkipToken ==
    /\ mapPc = "loop"
    /\ tokenIndex < Len(safeTokens)
    /\ CurrentValue = <<>>
    /\ tokenIndex' = tokenIndex + 1
    /\ UNCHANGED <<exceptMap, safeTokens, columnAnchors, columnLabels, result, occupied, mapPc>>

\* lines 307-310
MapAssignToken ==
    /\ mapPc = "loop"
    /\ tokenIndex < Len(safeTokens)
    /\ CurrentValue # <<>>
    /\ BestIndex(columnAnchors, occupied, CurrentToken) # 0
    /\ LET bestIndex == BestIndex(columnAnchors, occupied, CurrentToken) IN
          /\ occupied' = [occupied EXCEPT ![bestIndex] = TRUE]
          /\ result' = [result EXCEPT ![bestIndex] = CurrentValue]
    /\ tokenIndex' = tokenIndex + 1
    /\ UNCHANGED <<exceptMap, safeTokens, columnAnchors, columnLabels, mapPc>>

\* bestIndex === -1: every anchor is occupied, the token is dropped
MapDropToken ==
    /\ mapPc = "loop"
    /\ tokenIndex < Len(safeTokens)
    /\ CurrentValue # <<>>
    /\ BestIndex(columnAnchors, occupied, CurrentToken) = 0
    /\ tokenIndex' = tokenIndex + 1
    /\ UNCHANGED <<exceptMap, safeTokens, columnAnchors, columnLabels, result, occupied, mapPc>>

\* return result
MapReturn ==
    /\ mapPc = "loop"
    /\ tokenIndex >= Len(safeTokens)
    /\ mapPc' = "done"
    /\ UNCHANGED <<exceptMap, safeTokens, columnAnchors, columnLabels, result, occupied, tokenIndex>>

-----------------------------------------------------------------------------
(* Line reconstruction *)

\* twice the default tolerance of groupLines (2.5), coordinates being integers
TOLERANCE2 == 5

\* the first bucket within tolerance of y (1-based; 0 for the code's -1)
FindBucket(yBuckets, y) ==
    LET near(i) == 2 * Abs(yBuckets[i] - y) <= TOLERANCE2 IN
    IF \E i \in 1..Len(yBuckets) : near(i)
    THEN CHOOSE i \in 1..Len(yBuckets) : near(i) /\ \A j \in 1..(i - 1) : ~near(j)
    ELSE 0

\* the body of items.forEach (lines 390-406)
PlaceItem(acc, it) ==
    LET bucketIndex == FindBucket(acc.yBuckets, it.y) IN
    IF bucketIndex = 0
    THEN [yBuckets |-> Append(acc.yBuckets, it.y), rows |-> Append(acc.rows, <<it>>)]
    ELSE [acc EXCEPT !.rows[bucketIndex] = Append(@, it)]

RECURSIVE BuildRows(_, _)
BuildRows(acc, its) ==
    IF its = <<>> THEN acc ELSE BuildRows(PlaceItem(acc, Head(its)), Tail(its))

RECURSIVE InsertByX(_, _)
InsertByX(sorted, it) ==
    IF sorted = <<>> THEN <<it>>
    ELSE IF Head(sorted).x <= it.x THEN <<Head(sorted)>> \o InsertByX(Tail(sorted), it)
    ELSE <<it>> \o sorted

\* a faulty variant of SortByX: the row is left in insertion order
KeepInsertionOrder(row) == row

\* row.sort((a, b) => a.x - b.x), a stable sort
RECURSIVE SortByX(_)
SortByX(row) ==
    IF row = <<>> THEN <<>>
    ELSE InsertByX(SortByX(SubSeq(row, 1, Len(row) - 1)), row[Len(row)])

RECURSIVE SumY(_)
SumY(row) == IF row = <<>> THEN 0 ELSE Head(row).y + SumY(Tail(row))

\* one element of lineObjects (lines 408-420); the mean y is kept as the
\* fraction ySum / count
LineObject(row) ==
    LET sorted == SortByX(row) IN
    [ySum |-> SumY(sorted),
     count |-> Len(sorted),
     page |-> sorted[1].page,
     tokens |-> [i \in 1..Len(sorted) |->
                    [str |-> sorted[i].str, x |-> sorted[i].x,
                     width |-> sorted[i].width, height |-> sorted[i].height]]]

\* the comparator a.page - b.page || b.y - a.y is <= 0
LineBeforeOrEqual(a, b) ==
    \/ a.page < b.page
    \/ a.page = b.page /\ b.ySum * a.count <= a.ySum * b.count

RECURSIVE InsertLine(_, _)
InsertLine(sorted, l) ==
    IF sorted = <<>> THEN <<l>>
    ELSE IF LineBeforeOrEqual(Head(sorted), l) THEN <<Head(sorted)>> \o InsertLine(Tail(sorted), l)
    ELSE <<l>> \o sorted

\* lineObjects.sort(...), a stable sort
RECURSIVE SortLines(_)
SortLines(ls) ==
    IF ls = <<>> THEN <<>>
    ELSE InsertLine(SortLines(SubSeq(ls, 1, Len(ls) - 1)), ls[Len(ls)])

groupLines(its) ==
    LET rows == BuildRows([yBuckets |-> <<>>, rows |-> <<>>], its).rows IN
    SortLines([i \in 1..Len(rows) |-> LineObject(rows[i])])

\* a call of groupLines on the current order of the items
GroupLinesCall ==
    /\ grouped' = groupLines(items)
    /\ firstGrouped' = IF firstGrouped = NoArray THEN groupLines(items) ELSE firstGrouped
    /\ UNCHANGED <<exceptGroup, items>>

\* the same tokens are handed over in another order: two neighbours swapped
ReorderItems ==
    /\ \E i \in 1..(Len(items) - 1) :
          items' = [items EXCEPT ![i] = items[i + 1], ![i + 1] = items[i]]
    /\ UNCHANGED <<exceptGroup, grouped, firstGrouped>>



-----------------------------------------------------------------------------
(* Date and time detection *)

\* the value of Number(...) that is NaN
NaN == -1

\* Number(s) of a piece of a date or time: digits only, else NaN
Number(s) == IF AllDigits(s) THEN toNumber(s) ELSE NaN

\* String(value).padStart(2, '0')
pad(value) == LET str == toString(value) IN IF Len(str) < 2 THEN <<"0">> \o str ELSE str

DigitAt(s, i) == i >= 1 /\ i <= Len(s) /\ IsDigit(s[i])
DateSeparators == {".", "/", "-"}
TimeSeparators == {":", ",", "h", "H"}
CharIn(s, i, chars) == i >= 1 /\ i <= Len(s) /\ s[i] \in chars

\* the longest run of 1..most digits from position i that leaves the rest of
\* the pattern matching is found by trying the lengths from most down
DigitRun(s, i, n) == \A k \in 0..(n - 1) : DigitAt(s, i + k)

\* DATE_REGEX group 1, \d{1,2}[./-]\d{1,2}[./-]\d{2,4}, matched at position i:
\* the position after the match, 0 if there is none. Each quantifier is greedy.
DateMatchEnd(s, i) ==
    LET afterYear(p) ==
            IF DigitRun(s, p, 4) THEN p + 4
            ELSE IF DigitRun(s, p, 3) THEN p + 3
            ELSE IF DigitRun(s, p, 2) THEN p + 2
            ELSE 0
        afterMonth(p) ==
            IF DigitRun(s, p, 2) /\ CharIn(s, p + 2, DateSeparators) /\ afterYear(p + 3) # 0
            THEN afterYear(p + 3)
            ELSE IF DigitRun(s, p, 1) /\ CharIn(s, p + 1, DateSeparators) /\ afterYear(p + 2) # 0
            THEN afterYear(p + 2)
            ELSE 0
    IN  IF DigitRun(s, i, 2) /\ CharIn(s, i + 2, DateSeparators) /\ afterMonth(i + 3) # 0
        THEN afterMonth(i + 3)
        ELSE IF DigitRun(s, i, 1) /\ CharIn(s, i + 1, DateSeparators) /\ afterMonth(i + 2) # 0
        THEN afterMonth(i + 2)
        ELSE 0

\* DATE_REGEX.exec(text)[1], NullStr when the regex does not match. The
\* optional "date"/"data" prefix holds no digit, so the capture is the
\* leftmost match of group 1.
DateRegexExec(text) ==
    IF \E i \in 1..Len(text) : DateMatchEnd(text, i) # 0
    THEN LET i == CHOOSE i \in 1..Len(text) :
                    DateMatchEnd(text, i) # 0 /\ \A j \in 1..(i - 1) : DateMatchEnd(text, j) = 0
         IN  SubSeq(text, i, DateMatchEnd(text, i) - 1)
    ELSE NullStr

\* /\w/
WordChars == DigitSet \cup UpperSet \cup LowerSet \cup {"_"}

\* \b at the gap before position p
WordBoundary(s, p) == CharIn(s, p - 1, WordChars) # CharIn(s, p, WordChars)

IsMeridiemAt(s, p) ==
    /\ p + 1 <= Len(s)
    /\ toLowerCase(SubSeq(s, p, p + 1)) \in {Chars("am"), Chars("pm")}

\* \s*(?:am|pm)?\b from position p: the position after the match, 0 if none;
\* \s* takes as many spaces as it can, the meridiem is taken when it can be
TimeTailEnd(s, p) ==
    LET maxSpaces == skipSpaces(s, p) - p
        end(k, withMeridiem) == IF withMeridiem THEN p + k + 2 ELSE p + k
        ok(k, withMeridiem) ==
            /\ withMeridiem => IsMeridiemAt(s, p + k)
            /\ WordBoundary(s, end(k, withMeridiem))
        options == {<<k, m>> \in (0..maxSpaces) \X BOOLEAN : ok(k, m)}
    IN  IF options = {} THEN 0
        ELSE LET best == CHOOSE o \in options :
                            \A o2 \in options :
                                \/ o[1] > o2[1]
                                \/ o[1] = o2[1] /\ (o[2] \/ ~o2[2])
             IN  end(best[1], best[2])

\* [:,h]\d{2}(?:[:,h]\d{2})?\s*(?:am|pm)?\b from position p
TimeRestEnd(s, p) ==
    IF ~(CharIn(s, p, TimeSeparators) /\ DigitRun(s, p + 1, 2)) THEN 0
    ELSE IF /\ CharIn(s, p + 3, TimeSeparators) /\ DigitRun(s, p + 4, 2)
            /\ TimeTailEnd(s, p + 6) # 0
         THEN TimeTailEnd(s, p + 6)
         ELSE TimeTailEnd(s, p + 3)

\* TIME_REGEX group 1 matched at position i: the position after the match, 0
\* if there is none. The hours are (?:[01]?\d|2[0-3]).
TimeMatchEnd(s, i) ==
    IF /\ CharIn(s, i, {"0", "1"}) /\ DigitAt(s, i + 1)
       /\ TimeRestEnd(s, i + 2) # 0
    THEN TimeRestEnd(s, i + 2)
    ELSE IF DigitAt(s, i) /\ TimeRestEnd(s, i + 1) # 0
    THEN TimeRestEnd(s, i + 1)
    ELSE IF /\ CharIn(s, i, {"2"})
            /\ CharIn(s, i + 1, {"0", "1", "2", "3"})
            /\ TimeRestEnd(s, i + 2) # 0
    THEN TimeRestEnd(s, i + 2)
    ELSE 0

\* TIME_REGEX.exec(text)[1], NullStr when the regex does not match. The
\* optional "time"/"hora" prefix holds no digit, so the capture is the
\* leftmost match of group 1.
TimeRegexExec(text) ==
    IF \E i \in 1..Len(text) : TimeMatchEnd(text, i) # 0
    THEN LET i == CHOOSE i \in 1..Len(text) :
                    TimeMatchEnd(text, i) # 0 /\ \A j \in 1..(i - 1) : TimeMatchEnd(text, j) = 0
         IN  SubSeq(text, i, TimeMatchEnd(text, i) - 1)
    ELSE NullStr

\* s.split(separator).filter(Boolean), the separator being one character of seps
RECURSIVE splitOn(_, _)
splitOn(s, seps) ==
    IF s = <<>> THEN <<>>
    ELSE IF s[1] \in seps THEN splitOn(Tail(s), seps)
    ELSE LET n == IF \E i \in 1..Len(s) : s[i] \in seps
                  THEN (CHOOSE i \in 1..Len(s) :
                            s[i] \in seps /\ \A j \in 1..(i - 1) : s[j] \notin seps) - 1
                  ELSE Len(s)
         IN  <<SubSeq(s, 1, n)>> \o splitOn(SubSeq(s, n + 1, Len(s)), seps)

\* lines 192-194
PivotYear(year) == IF year < 100 THEN year + (IF year >= 70 THEN 1900 ELSE 2000) ELSE year

formatDateForInput(rawDate) ==
    IF rawDate = NullStr \/ rawDate = <<>> THEN NullStr
    ELSE LET split == splitOn(rawDate, DateSeparators)
             parts == SelectSeq([i \in 1..Len(split) |-> trim(split[i])], NonEmpty)
         IN  IF Len(parts) < 3 THEN NullStr
             ELSE LET day0 == Number(parts[1])
                      month0 == Number(parts[2])
                      year0 == Number(parts[3])
                      year == PivotYear(year0)
                      swap == month0 > 12 /\ day0 <= 12
                      day == IF swap THEN month0 ELSE day0
                      month == IF swap THEN day0 ELSE month0
                  IN  IF day0 \in {0, NaN} \/ month0 \in {0, NaN} \/ year0 \in {0, NaN} THEN NullStr
                      ELSE IF day > 31 \/ month > 12 THEN NullStr
                      ELSE toString(year) \o <<"-">> \o pad(month) \o <<"-">> \o pad(day)

\* lines 218-221
MeridiemHours(meridiem, hours) ==
    IF meridiem = Chars("pm") /\ hours < 12 THEN hours + 12
    ELSE IF meridiem = Chars("am") /\ hours = 12 THEN 0
    ELSE hours

formatTimeForInput(rawTime) ==
    IF rawTime = NullStr \/ rawTime = <<>> THEN NullStr
    ELSE LET trimmed == toLowerCase(trim(rawTime))
             hasMeridiem ==
                 /\ Len(trimmed) >= 2
                 /\ SubSeq(trimmed, Len(trimmed) - 1, Len(trimmed)) \in {Chars("am"), Chars("pm")}
             meridiem == IF hasMeridiem THEN SubSeq(trimmed, Len(trimmed) - 1, Len(trimmed))
                         ELSE NullStr
             withoutMeridiem == IF hasMeridiem THEN SubSeq(trimmed, 1, Len(trimmed) - 2) ELSE trimmed
             colons == [i \in 1..Len(withoutMeridiem) |->
                          IF withoutMeridiem[i] = "h" THEN ":" ELSE withoutMeridiem[i]]
             numericPart == trim(SelectSeq(colons, NotSpace))
             segments == splitOn(numericPart, {":"})
         IN  IF segments = <<>> THEN NullStr
             ELSE LET hours0 == Number(segments[1])
                      minutes == IF Len(segments) >= 2 THEN Number(segments[2]) ELSE 0
                  IN  IF hours0 = NaN \/ minutes = NaN THEN NullStr
                      ELSE pad(MeridiemHours(meridiem, hours0) % 24) \o <<":">> \o pad(minutes)

\* the loop of detectMatchMetadata (lines 234-255) from the values detected so far
RECURSIVE ScanMetadata(_, _, _)
ScanMetadata(ls, detectedDate, detectedTime) ==
    IF ls = <<>> \/ (detectedDate # NullStr /\ detectedTime # NullStr)
    THEN [date |-> detectedDate, time |-> detectedTime]
    ELSE LET text == getLineText(Head(ls)) IN
         IF text = <<>> THEN ScanMetadata(Tail(ls), detectedDate, detectedTime)
         ELSE ScanMetadata(Tail(ls),
                  IF detectedDate = NullStr THEN formatDateForInput(DateRegexExec(text))
                  ELSE detectedDate,
                  IF detectedTime = NullStr THEN formatTimeForInput(TimeRegexExec(text))
                  ELSE detectedTime)

detectMatchMetadata(ls) == ScanMetadata(ls, NullStr, NullStr)

\* detectedDate || ""
OrEmpty(value) == IF value = NullStr THEN <<>> ELSE value

\* parsePDF, lines 849-853: the detected date and time are stored
StoreMatchMetadata ==
    /\ metaPc = "start"
    /\ LET detected == detectMatchMetadata(metaLines)
       IN  /\ matchDate' = OrEmpty(detected.date)
           /\ matchTime' = OrEmpty(detected.time)
    /\ metaPc' = "done"
    /\ UNCHANGED <<exceptMeta, metaLines>>

-----------------------------------------------------------------------------
(* Column anchors and the set count *)

\* splitTokenText(token) with the geometry of the pieces; the widths of the
\* model's tokens are multiples of their lengths, so widthPerChar is whole
splitTokenPieces(token) ==
    LET parts == splitTokenText(token.str)
        widthPerChar == token.width \div Max(Len(token.str), 1)
        estimatedWidth(k) ==
            IF widthPerChar * Len(parts[k]) # 0 THEN widthPerChar * Len(parts[k]) ELSE token.width
        cursorX[k \in 1..Len(parts)] ==
            IF k = 1 THEN token.x ELSE cursorX[k - 1] + estimatedWidth(k - 1) + widthPerChar
    IN  IF Len(parts) <= 1 THEN <<token>>
        ELSE [k \in 1..Len(parts) |->
                 [str |-> parts[k], x |-> cursorX[k], width |-> estimatedWidth(k),
                  height |-> token.height]]

RECURSIVE flatMapPieces(_)
flatMapPieces(tokens) ==
    IF tokens = <<>> THEN <<>> ELSE splitTokenPieces(Head(tokens)) \o flatMapPieces(Tail(tokens))

HasText(token) == token.text # <<>>

\* lines 621-629
flattenedHeaderTokens(tokens) ==
    LET pieces == flatMapPieces(tokens) IN
    SelectSeq([i \in 1..Len(pieces) |->
                  [text |-> trim(pieces[i].str), x |-> pieces[i].x, width |-> pieces[i].width,
                   height |-> pieces[i].height]],
              HasText)

\* the str of the tokens of a Line
StrsOf(tokens) == [i \in 1..Len(tokens) |-> tokens[i].str]

\* lines 614-617
IsHeaderLine(tokens) ==
    LET text == toLowerCase(getLineText(StrsOf(tokens))) IN
    includes(text, Chars("pos%")) /\ includes(text, Chars("vote")) /\ includes(text, Chars("blo"))

\* array.findIndex(test) counted from 1, 0 when there is none; tests[i] is
\* the test on the i-th element
FirstIndex(tests) ==
    CHOOSE n \in {IF \E i \in 1..Len(passes) : passes[i]
                  THEN CHOOSE i \in 1..Len(passes) : passes[i] /\ \A j \in 1..(i - 1) : ~passes[j]
                  ELSE 0 : passes \in {tests}} : TRUE

\* a null result of the anchor inference
NoLayout == [anchors |-> NullAnchors, detectedSetCount |-> -1]

AnchorsOfTokens(toks, n) == [i \in 1..n |-> AnchorOf(toks[i].x, toks[i].width, toks[i].height)]

\* lines 637-654, from dataTokens
LayoutOfDataTokens(dataTokens) ==
    LET \* firstVoteIndex, counted from 0 as in the code
        firstVoteIndex ==
            FirstIndex([i \in 1..Len(dataTokens) |->
                           toLowerCase(dataTokens[i].text) = Chars("vote")]) - 1
        setCount == IF firstVoteIndex > 0 THEN firstVoteIndex ELSE DEFAULT_SET_COLUMNS
        labels == buildTableColumnLabels(setCount)
    IN  IF Len(dataTokens) < Len(labels) THEN NoLayout
        ELSE [anchors |-> AnchorsOfTokens(dataTokens, Len(labels)),
              detectedSetCount |-> setCount]

\* lines 631-654, from flattenedTokens
LayoutOfHeaderTokens(flattenedTokens) ==
    LET firstDataAt ==
            FirstIndex([i \in 1..Len(flattenedTokens) |-> flattenedTokens[i].text = <<"1">>])
    IN  IF firstDataAt = 0 THEN NoLayout
        ELSE CHOOSE layout \in
                 {LayoutOfDataTokens(dataTokens) :
                     dataTokens \in {SubSeq(flattenedTokens, firstDataAt, Len(flattenedTokens))}} :
                 TRUE

inferAnchorsFromHeader(ls) ==
    LET headerAt == FirstIndex([i \in 1..Len(ls) |-> IsHeaderLine(ls[i])]) IN
    IF headerAt = 0 THEN NoLayout
    ELSE CHOOSE layout \in
             {LayoutOfHeaderTokens(flattenedTokens) :
                 flattenedTokens \in {flattenedHeaderTokens(ls[headerAt])}} :
             TRUE

NotBlank(token) == trim(token.text) # <<>>

\* the first of the longest among the players' non-blank stat-token lists that
\* have at least n tokens (lines 589-592); <<>> when there is none
CandidateTokens(players, n) ==
    LET lists == [k \in 1..Len(players) |-> SelectSeq(players[k].statTokens, NotBlank)]
        fits == {k \in 1..Len(players) : Len(lists[k]) >= n}
    IN  IF fits = {} THEN <<>>
        ELSE lists[CHOOSE k \in fits :
                      \A j \in fits : Len(lists[k]) > Len(lists[j])
                                      \/ (Len(lists[k]) = Len(lists[j]) /\ k <= j)]

inferColumnAnchors(players, ls, currentSetCount) ==
    LET headerResult == inferAnchorsFromHeader(ls)
        labels == buildTableColumnLabels(currentSetCount)
        candidateTokens == CandidateTokens(players, Len(labels))
    IN  IF headerResult # NoLayout THEN headerResult
        ELSE IF players = <<>> \/ candidateTokens = <<>>
        THEN [anchors |-> NullAnchors, detectedSetCount |-> currentSetCount]
        ELSE [anchors |-> AnchorsOfTokens(candidateTokens, Len(labels)),
              detectedSetCount |-> currentSetCount]

\* parsePDF, lines 862-869
InferLayout ==
    /\ layoutPc = "start"
    /\ \E inferred \in {inferColumnAnchors(layoutPlayers, layoutLines, setColumnCount)} :
          LET effectiveSetCount == IF inferred.detectedSetCount = 0 THEN DEFAULT_SET_COLUMNS
                                   ELSE inferred.detectedSetCount
          IN  /\ inferredAnchors' = inferred.anchors
              /\ detectedSetCount' = inferred.detectedSetCount
              /\ effectiveColumnLabels' = buildTableColumnLabels(effectiveSetCount)
              /\ setColumnCount' = effectiveSetCount
    /\ layoutPc' = "done"
    /\ UNCHANGED <<exceptLayout, layoutLines, layoutPlayers>>

\* resetViewToInitialState, line 767
ResetSetColumnCount ==
    /\ layoutPc = "done"
    /\ setColumnCount' = DEFAULT_SET_COLUMNS
    /\ layoutPc' = "reset"
    /\ UNCHANGED <<exceptLayout, layoutLines, layoutPlayers, inferredAnchors, detectedSetCount,
                   effectiveColumnLabels>>

-----------------------------------------------------------------------------
(* The match report payload *)

\* a columnValues that is undefined
UndefinedValues == <<NullStr>>

\* a faulty variant of StatValue: the index is taken one too low
StatValueOffByOne(player, labelIndex) ==
    IF player.columnValues = UndefinedValues THEN EMPTY_VALUE_PLACEHOLDER
    ELSE IF labelIndex - 1 < 1 \/ labelIndex - 1 > Len(player.columnValues) THEN EMPTY_VALUE_PLACEHOLDER
    ELSE IF player.columnValues[labelIndex - 1] = NullStr THEN EMPTY_VALUE_PLACEHOLDER
    ELSE player.columnValues[labelIndex - 1]

\* player.columnValues?.[labelIndex] ?? EMPTY_VALUE_PLACEHOLDER, the index counted from 1
StatValue(player, labelIndex) ==
    IF player.columnValues = UndefinedValues THEN EMPTY_VALUE_PLACEHOLDER
    ELSE IF labelIndex > Len(player.columnValues) THEN EMPTY_VALUE_PLACEHOLDER
    ELSE IF player.columnValues[labelIndex] = NullStr THEN EMPTY_VALUE_PLACEHOLDER
    ELSE player.columnValues[labelIndex]

\* safeLabels.reduce((acc, label, index) => { acc[label] = ...; return acc }, {}):
\* an object keyed by the labels, a repeated label keeping its last value
PlayerStats(player, safeLabels) ==
    [label \in {safeLabels[i] : i \in 1..Len(safeLabels)} |->
        LET last == CHOOSE i \in 1..Len(safeLabels) :
                        safeLabels[i] = label /\ \A j \in (i + 1)..Len(safeLabels) : safeLabels[j] # label
        IN  StatValue(player, last)]

PayloadPlayer(player, safeLabels) ==
    [number |-> player.number, name |-> player.name, stats |-> PlayerStats(player, safeLabels)]

\* value || null
OrNull(value) == IF value = <<>> THEN NullStr ELSE value

buildMatchReportPayload(players, labels, columns, dateValue, timeValue, now) ==
    LET teams == groupPlayersByTeam(players) IN
    [generatedAt |-> now,
     setColumns |-> columns,
     columnLabels |-> labels,
     matchDate |-> OrNull(dateValue),
     matchTime |-> OrNull(timeValue),
     teams |-> [t \in 1..Len(teams) |->
                  [team |-> teams[t].team,
                   players |-> [k \in 1..Len(teams[t].players) |->
                                   PayloadPlayer(teams[t].players[k], labels)]]]]

\* new Date().toISOString() at the call
Clock == {Chars("2024-03-15T19:30:00.000Z"), Chars("2024-03-16T08:00:00.000Z")}

BuildMatchReportPayload ==
    /\ payload = Pending
    /\ \E now \in Clock :
          payload' = buildMatchReportPayload(playersData, payloadColumnLabels, setColumns,
                                             matchDateValue, matchTimeValue, now)
    /\ UNCHANGED <<exceptPayload, playersData, payloadColumnLabels, setColumns, matchDateValue,
                   matchTimeValue>>

-----------------------------------------------------------------------------
(* Multipart upload: slicing a file into parts *)

\* blob.slice(start, end) of a blob of the given size: the bytes [from, to);
\* a negative position counts from the end, every position is clamped to the
\* blob, and an end before the start gives an empty blob
RelativePosition(size, position) ==
    IF position < 0 THEN (IF size + position > 0 THEN size + position ELSE 0)
    ELSE (IF position < size THEN position ELSE size)

BlobSliceUnclamped(size, start, end) == [from |-> start, to |-> end]

BlobSlice(size, start, end) ==
    LET relativeStart == RelativePosition(size, start)
        relativeEnd == RelativePosition(size, end)
    IN  [from |-> relativeStart,
         to |-> IF relativeEnd > relativeStart THEN relativeEnd ELSE relativeStart]

ChunkSize(chunk) == chunk.to - chunk.from

\* if (!file || !chunkSizeBytes) return []
SliceGuard ==
    /\ slicePc = "start"
    /\ IF sliceFile = NullRec \/ sliceChunkSizeBytes = 0
       THEN slicePc' = "done"
       ELSE slicePc' = "loop"
    /\ sliceParts' = <<>>
    /\ sliceOffset' = 0
    /\ slicePartNumber' = 1
    /\ UNCHANGED <<exceptSlice, sliceFile, sliceChunkSizeBytes>>

\* one iteration of while (offset < file.size)
SlicePush ==
    /\ slicePc = "loop"
    /\ sliceOffset < sliceFile.size
    /\ sliceParts' = Append(sliceParts,
                            [partNumber |-> slicePartNumber,
                             chunk |-> BlobSlice(sliceFile.size, sliceOffset,
                                                 sliceOffset + sliceChunkSizeBytes)])
    /\ sliceOffset' = sliceOffset + sliceChunkSizeBytes
    /\ slicePartNumber' = slicePartNumber + 1
    /\ UNCHANGED <<exceptSlice, sliceFile, sliceChunkSizeBytes, slicePc>>

\* the loop condition fails: return parts
SliceReturn ==
    /\ slicePc = "loop"
    /\ ~(sliceOffset < sliceFile.size)
    /\ slicePc' = "done"
    /\ UNCHANGED <<exceptSlice, sliceFile, sliceChunkSizeBytes, sliceOffset, slicePartNumber,
                   sliceParts>>

-----------------------------------------------------------------------------
(* Multipart upload: uploading the parts *)

DEFAULT_RETRIES == 2

NotQuote(c) == c # "\""

keepEtag(etag, fallback) == etag

\* etag ? etag.replaceAll('"', '') : fallback
sanitizeEtag(etag, fallback) ==
    IF etag = NullStr \/ etag = <<>> THEN fallback ELSE SelectSeq(etag, NotQuote)

\* `part-${partNumber}`
PartLabel(partNumber) == Chars("part-") \o toString(partNumber)

\* the ETag of the record made from a response whose ETag header is header
\* (NullStr when the response has none)
ETagOfResponse(header, partNumber) ==
    LET etag == IF header = NullStr \/ header = <<>> THEN PartLabel(partNumber) ELSE header
    IN  sanitizeEtag(etag, PartLabel(partNumber))

\* file.slice(start, Math.min(start + chunkSizeBytes, totalBytes))
ChunkOf(partNumber) ==
    LET start == (partNumber - 1) * uploadChunkSizeBytes IN
    BlobSlice(uploadFile.size, start, Min(start + uploadChunkSizeBytes, uploadFile.size))

\* Math.round((uploadedBytes / totalBytes) * 100)
Percent(bytes, totalBytes) ==
    IF totalBytes = 0 THEN 0 ELSE (200 * bytes + totalBytes) \div (2 * totalBytes)

\* addBytesAndEmit(delta, partNumber) from the state <<uploadedBytes, progress>>
addBytesAndEmit(state, delta, partNumber) ==
    IF delta = 0 THEN state
    ELSE LET bytes == Min(uploadFile.size, state[1] + delta) IN
         <<bytes,
           Append(state[2], [uploadedBytes |-> bytes,
                             totalBytes |-> uploadFile.size,
                             percent |-> Percent(bytes, uploadFile.size),
                             partNumber |-> partNumber])>>

\* safeEmit(loaded) of the request in flight, from <<uploadedBytes, progress, partUploaded>>
safeEmit(state, loaded, partNumber) ==
    IF loaded - state[3] <= 0 THEN state
    ELSE LET emitted == addBytesAndEmit(<<state[1], state[2]>>, loaded - state[3], partNumber)
         IN  <<emitted[1], emitted[2], loaded>>

CurrentUrl == urls[urlIndex]

\* the ETag header of a response: absent, plain, or quoted as object stores send it
ETagHeaders == {NullStr, Chars("e1"), <<"\"", "e", "2", "\"">>}

\* the request in flight ends with outcome: the last entry of the history
Ended(outcome, header) ==
    [requests EXCEPT ![Len(requests)] = [@ EXCEPT !.outcome = outcome, !.header = header]]

AbortMessage == Chars("Upload aborted")
FailedMessage(partNumber) == Chars("Upload failed for part ") \o toString(partNumber)

\* the guard and the set-up before the for loop
UploadCall ==
    /\ uploadPc = "call"
    /\ IF uploadFile = NullRec \/ Len(urls) = 0
       THEN /\ uploadError' = Chars("Missing file or upload URLs")
            /\ uploadPc' = "rejected"
       ELSE /\ uploadError' = NullStr
            /\ uploadPc' = "attempt"
    /\ uploadedBytes' = 0
    /\ completedParts' = <<>>
    /\ urlIndex' = 1
    /\ attempt' = 0
    /\ UNCHANGED <<exceptUpload, uploadFile, urls, uploadChunkSizeBytes, retries, canUseXHR,
                   signalAborted, partUploaded, requests, progress>>

\* attempt += 1 and the request is sent; uploadWithXHR rejects at once, without
\* sending, when the signal is already aborted, and the catch rethrows it
SendRequest ==
    /\ uploadPc = "attempt"
    /\ attempt' = attempt + 1
    /\ partUploaded' = 0
    /\ IF canUseXHR /\ signalAborted
       THEN /\ uploadError' = AbortMessage
            /\ uploadPc' = "rejected"
            /\ UNCHANGED requests
       ELSE /\ requests' = Append(requests,
                                  [url |-> CurrentUrl.url,
                                   partNumber |-> CurrentUrl.partNumber,
                                   chunk |-> ChunkOf(CurrentUrl.partNumber),
                                   outcome |-> "pending",
                                   header |-> NullStr])
            /\ uploadPc' = "inflight"
            /\ UNCHANGED uploadError
    /\ UNCHANGED <<exceptUpload, uploadFile, urls, uploadChunkSizeBytes, retries, canUseXHR,
                   signalAborted, urlIndex, uploadedBytes, completedParts, progress>>

\* xhr.upload.onprogress with a computable length
XHRProgress ==
    /\ uploadPc = "inflight"
    /\ canUseXHR
    /\ \E loaded \in 1..ChunkSize(ChunkOf(CurrentUrl.partNumber)) :
       \E emitted \in {safeEmit(<<uploadedBytes, progress, partUploaded>>, loaded,
                                CurrentUrl.partNumber)} :
          /\ uploadedBytes' = emitted[1]
          /\ progress' = emitted[2]
          /\ partUploaded' = emitted[3]
    /\ UNCHANGED <<exceptUpload, uploadFile, urls, uploadChunkSizeBytes, retries, canUseXHR,
                   signalAborted, urlIndex, attempt, completedParts, requests, uploadError,
                   uploadPc>>

\* the response is ok (a 2xx status): the part is recorded and the for loop
\* goes to the next entry of urls, or returns completedParts after the last
RequestSucceeds ==
    /\ uploadPc = "inflight"
    /\ \E header \in ETagHeaders :
       \E emitted \in {IF canUseXHR
                       THEN safeEmit(<<uploadedBytes, progress, partUploaded>>,
                                     ChunkSize(ChunkOf(CurrentUrl.partNumber)), CurrentUrl.partNumber)
                       ELSE addBytesAndEmit(<<uploadedBytes, progress>>,
                                            ChunkSize(ChunkOf(CurrentUrl.partNumber)),
                                            CurrentUrl.partNumber)} :
          /\ uploadedBytes' = emitted[1]
          /\ progress' = emitted[2]
          /\ completedParts' = Append(completedParts,
                                      [partNumber |-> CurrentUrl.partNumber,
                                       ETag |-> ETagOfResponse(header, CurrentUrl.partNumber),
                                       bytes |-> ChunkSize(ChunkOf(CurrentUrl.partNumber))])
          /\ requests' = Ended("ok", header)
    /\ IF urlIndex = Len(urls)
       THEN uploadPc' = "resolved" /\ UNCHANGED <<urlIndex, attempt>>
       ELSE uploadPc' = "attempt" /\ urlIndex' = urlIndex + 1 /\ attempt' = 0
    /\ UNCHANGED <<exceptUpload, uploadFile, urls, uploadChunkSizeBytes, retries, canUseXHR,
                   signalAborted, partUploaded, uploadError>>

\* a faulty variant of CatchFailure: one more attempt is allowed
CatchFailureOneMore ==
    IF attempt > retries + 1
    THEN /\ uploadError' = FailedMessage(CurrentUrl.partNumber)
         /\ uploadPc' = "rejected"
    ELSE /\ uploadPc' = "sleep"
         /\ UNCHANGED uploadError

\* the catch block for an error that is not an AbortError
CatchFailure ==
    IF attempt > retries
    THEN /\ uploadError' = FailedMessage(CurrentUrl.partNumber)
         /\ uploadPc' = "rejected"
    ELSE /\ uploadPc' = "sleep"
         /\ UNCHANGED uploadError

\* the response is not ok, or the request fails (a network error); with
\* XMLHttpRequest onload first reports the whole chunk as loaded
RequestFails ==
    /\ uploadPc = "inflight"
    /\ \E outcome \in {"not ok", "error"} :
       \E emitted \in {IF canUseXHR /\ outcome = "not ok"
                       THEN safeEmit(<<uploadedBytes, progress, partUploaded>>,
                                     ChunkSize(ChunkOf(CurrentUrl.partNumber)), CurrentUrl.partNumber)
                       ELSE <<uploadedBytes, progress>>} :
          /\ uploadedBytes' = emitted[1]
          /\ progress' = emitted[2]
          /\ requests' = Ended(outcome, NullStr)
    /\ CatchFailure
    /\ UNCHANGED <<exceptUpload, uploadFile, urls, uploadChunkSizeBytes, retries, canUseXHR,
                   signalAborted, urlIndex, attempt, completedParts, partUploaded>>

\* the fetcher rejects with an AbortError because the signal it was given is
\* aborted: the catch block rethrows it
FetchAborts ==
    /\ uploadPc = "inflight"
    /\ ~canUseXHR
    /\ signalAborted
    /\ requests' = Ended("abort", NullStr)
    /\ uploadError' = AbortMessage
    /\ uploadPc' = "rejected"
    /\ UNCHANGED <<exceptUpload, uploadFile, urls, uploadChunkSizeBytes, retries, canUseXHR,
                   signalAborted, urlIndex, attempt, uploadedBytes, completedParts, partUploaded,
                   progress>>

\* a faulty variant of Abort: the catch block retries after an AbortError
AbortIsRetried ==
    /\ uploadPc \in {"attempt", "inflight", "sleep"}
    /\ ~signalAborted
    /\ signalAborted' = TRUE
    /\ IF canUseXHR /\ uploadPc = "inflight"
       THEN /\ requests' = Ended("abort", NullStr)
            /\ uploadPc' = "sleep"
            /\ UNCHANGED uploadError
       ELSE UNCHANGED <<requests, uploadError, uploadPc>>
    /\ UNCHANGED <<exceptUpload, uploadFile, urls, uploadChunkSizeBytes, retries, canUseXHR,
                   urlIndex, attempt, uploadedBytes, completedParts, partUploaded, progress>>

\* the caller aborts the signal; the abort handler of an XMLHttpRequest in
\* flight aborts it, onabort rejects with an AbortError and the catch block
\* rethrows it
Abort ==
    /\ uploadPc \in {"attempt", "inflight", "sleep"}
    /\ ~signalAborted
    /\ signalAborted' = TRUE
    /\ IF canUseXHR /\ uploadPc = "inflight"
       THEN /\ requests' = Ended("abort", NullStr)
            /\ uploadError' = AbortMessage
            /\ uploadPc' = "rejected"
       ELSE UNCHANGED <<requests, uploadError, uploadPc>>
    /\ UNCHANGED <<exceptUpload, uploadFile, urls, uploadChunkSizeBytes, retries, canUseXHR,
                   urlIndex, attempt, uploadedBytes, completedParts, partUploaded, progress>>

\* await sleep(RETRY_DELAY_BASE_MS * attempt) ends and the while loop goes on
RetryAfterSleep ==
    /\ uploadPc = "sleep"
    /\ uploadPc' = "attempt"
    /\ UNCHANGED <<exceptUpload, uploadFile, urls, uploadChunkSizeBytes, retries, canUseXHR,
                   signalAborted, urlIndex, attempt, uploadedBytes, completedParts, partUploaded,
                   requests, progress, uploadError>>

-----------------------------------------------------------------------------
(* AuthProvider: the session in memory and in localStorage *)

\* A user object is a record of the fields the provider reads: id, email,
\* actualTeam, currentTeam, country and currentTeamCountryCode are NullStr
\* (absent) or a string; currentTeamCountry is NullRec (absent), [text |-> s]
\* for a string, or a country object [code |-> c, name |-> n].

\* the entries of the countries list the model uses
countries ==
    <<[code |-> Chars("BR"), name |-> Chars("Brazil")],
      [code |-> Chars("US"), name |-> Chars("United States")]>>

\* headerOverrides {}
NoOverrides == [empty |-> TRUE]

Truthy(value) == value # NullStr /\ value # <<>>

\* value ?? fallback
Coalesce(value, fallback) == IF value = NullStr THEN fallback ELSE value

IsTextWithContent(value) == value # NullStr /\ trim(value) # <<>>

CodeIs(normalized) == [i \in 1..Len(countries) |-> toLowerCase(countries[i].code) = normalized]
NameIs(normalized) == [i \in 1..Len(countries) |-> toLowerCase(countries[i].name) = normalized]

\* findCountryEntry(value): by code, then by name; NullRec when none
findCountryEntry(value) ==
    IF ~Truthy(value) THEN NullRec
    ELSE LET normalized == toLowerCase(trim(value)) IN
         IF normalized = <<>> THEN NullRec
         ELSE IF FirstIndex(CodeIs(normalized)) # 0
              THEN countries[FirstIndex(CodeIs(normalized))]
         ELSE IF FirstIndex(NameIs(normalized)) # 0
              THEN countries[FirstIndex(NameIs(normalized))]
         ELSE NullRec

rawCountryOf(u) ==
    IF IsTextWithContent(u.country) THEN trim(u.country)
    ELSE IF IsTextWithContent(u.currentTeamCountryCode) THEN trim(u.currentTeamCountryCode)
    ELSE IF "text" \in DOMAIN u.currentTeamCountry /\ trim(u.currentTeamCountry.text) # <<>>
         THEN trim(u.currentTeamCountry.text)
    ELSE IF "code" \in DOMAIN u.currentTeamCountry /\ Truthy(u.currentTeamCountry.code)
         THEN u.currentTeamCountry.code
    ELSE NullStr

KeepUserAsIs(u) == u

normalizeUserProfile(u) ==
    IF u = NullRec THEN NullRec
    ELSE LET derivedTeam == Coalesce(u.actualTeam, u.currentTeam)
             rawCountry == rawCountryOf(u)
             countryEntry == findCountryEntry(Coalesce(rawCountry, <<>>))
         IN  [u EXCEPT !.actualTeam = derivedTeam,
                       !.currentTeam = derivedTeam,
                       !.country =
                           Coalesce(rawCountry,
                                    IF countryEntry # NullRec THEN countryEntry.code ELSE NullStr),
                       !.currentTeamCountryCode =
                           IF countryEntry # NullRec THEN countryEntry.code ELSE rawCountry,
                       !.currentTeamCountry = countryEntry]

\* the profile effect after a render in which accessToken went from
\* prevToken to nextToken: the clean-up of the previous run, then the new run
EffectCalls(calls, prevToken, nextToken) ==
    IF nextToken = prevToken THEN calls
    ELSE {IF c.origin = "effect" THEN [c EXCEPT !.active = FALSE] ELSE c : c \in calls}
         \cup (IF Truthy(nextToken)
               THEN {[token |-> nextToken, active |-> TRUE, origin |-> "effect"]}
               ELSE {})

EffectLoading(wasLoading, prevToken, nextToken) ==
    IF nextToken # prevToken /\ ~Truthy(nextToken) THEN FALSE ELSE wasLoading

PersistSessionInMemoryOnly(nextUser, nextToken, calls) ==
    /\ user' = normalizeUserProfile(nextUser)
    /\ accessToken' = nextToken
    /\ UNCHANGED <<storedToken, storedUser>>
    /\ meCalls' = EffectCalls(calls, accessToken, nextToken)

\* persistSession(nextUser, nextToken), and the profile effect that follows
\* the render when the token changed; calls are the api.auth.me calls left
PersistSession(nextUser, nextToken, calls) ==
    /\ user' = normalizeUserProfile(nextUser)
    /\ accessToken' = nextToken
    /\ storedToken' = IF Truthy(nextToken) THEN nextToken ELSE NullStr
    /\ storedUser' = normalizeUserProfile(nextUser)
    /\ meCalls' = EffectCalls(calls, accessToken, nextToken)

\* persistHeaderOverrides(overrides)
PersistHeaderOverrides(overrides) ==
    /\ headerOverrides' = overrides
    /\ storedHeaders' = overrides

MaxAuthCalls == 2

BareUser(id) ==
    [id |-> id, email |-> id \o Chars("@v.p"), actualTeam |-> NullStr, currentTeam |-> NullStr,
     country |-> NullStr, currentTeamCountryCode |-> NullStr, currentTeamCountry |-> NullRec]

\* users as the backend may send them: one with nothing but id and email, one
\* whose team and country the provider derives
ServerUsers ==
    {BareUser(Chars("1")),
     [BareUser(Chars("2")) EXCEPT !.actualTeam = Chars("Y"), !.currentTeam = Chars("X"),
                                  !.country = Chars(" br ")]}

Tokens == {Chars("t1"), Chars("t2")}

AuthResponses ==
    {NullRec} \cup {[user |-> u, accessToken |-> t] :
                       u \in ServerUsers \cup {NullRec}, t \in Tokens \cup {NullStr}}

ProfileUsers == ServerUsers \cup {NullRec}

\* login(payload) or register(payload) up to its await
CallAuth ==
    /\ authCalls < MaxAuthCalls
    /\ authCalls' = authCalls + 1
    /\ UNCHANGED <<exceptAuth, accessToken, user, loading, headerOverrides, storedToken,
                   storedUser, storedHeaders, meCalls, lastAuth>>

\* api.auth.login or api.auth.register resolves: handleAuthResponse(response)
AuthResolves ==
    /\ authCalls > 0
    /\ authCalls' = authCalls - 1
    /\ \E op \in {"login", "register"}, response \in AuthResponses :
          /\ lastAuth' = [op |-> op, response |-> response]
          /\ IF response = NullRec
             THEN UNCHANGED <<accessToken, user, loading, headerOverrides, storedToken,
                              storedUser, storedHeaders, meCalls>>
             ELSE /\ PersistSession(response.user, response.accessToken, meCalls)
                  /\ PersistHeaderOverrides(
                        [userId |-> IF response.user = NullRec THEN NullStr ELSE response.user.id,
                         email |-> IF response.user = NullRec THEN NullStr
                                   ELSE response.user.email])
                  /\ loading' = EffectLoading(loading, accessToken, response.accessToken)
    /\ UNCHANGED exceptAuth

\* api.auth.login or api.auth.register rejects: the error goes to the caller
AuthRejects ==
    /\ authCalls > 0
    /\ authCalls' = authCalls - 1
    /\ lastAuth' = [op |-> "rejected"]
    /\ UNCHANGED <<exceptAuth, accessToken, user, loading, headerOverrides, storedToken,
                   storedUser, storedHeaders, meCalls>>

\* logout(), with calls the api.auth.me calls left
DoLogout(calls) ==
    /\ PersistSession(NullRec, NullStr, calls)
    /\ PersistHeaderOverrides(NoOverrides)

Logout ==
    /\ DoLogout(meCalls)
    /\ loading' = EffectLoading(loading, accessToken, NullStr)
    /\ lastAuth' = [op |-> "logout"]
    /\ UNCHANGED <<exceptAuth, authCalls>>

\* refreshProfile() up to its await
RefreshProfile ==
    /\ Truthy(accessToken)
    /\ meCalls' = meCalls \cup {[token |-> accessToken, active |-> TRUE, origin |-> "refresh"]}
    /\ lastAuth' = [op |-> "refresh"]
    /\ UNCHANGED <<exceptAuth, accessToken, user, loading, headerOverrides, storedToken,
                   storedUser, storedHeaders, authCalls>>

\* api.auth.me resolves with profile.user: the effect stores it when it is
\* still active, refreshProfile always does
MeResolves ==
    /\ \E call \in meCalls, profileUser \in ProfileUsers :
          IF call.origin = "refresh" \/ call.active
          THEN /\ PersistSession(profileUser, call.token, meCalls \ {call})
               /\ loading' = IF call.origin = "effect" THEN FALSE
                             ELSE EffectLoading(loading, accessToken, call.token)
               /\ lastAuth' = [op |-> "profile"]
               /\ UNCHANGED <<headerOverrides, storedHeaders>>
          ELSE /\ meCalls' = meCalls \ {call}
               /\ UNCHANGED <<accessToken, user, loading, headerOverrides, storedToken,
                              storedUser, storedHeaders, lastAuth>>
    /\ UNCHANGED <<exceptAuth, authCalls>>

\* api.auth.me rejects: the effect logs out on a 401, whether or not it is
\* still active; refreshProfile passes the error to its caller
MeRejects ==
    /\ \E call \in meCalls, status \in {401, 500} :
          IF call.origin = "effect" /\ status = 401
          THEN /\ DoLogout(meCalls \ {call})
               /\ loading' = IF call.active THEN FALSE
                             ELSE EffectLoading(loading, accessToken, NullStr)
               /\ lastAuth' = [op |-> "logout"]
          ELSE /\ meCalls' = meCalls \ {call}
               /\ loading' = IF call.origin = "effect" /\ call.active THEN FALSE ELSE loading
               /\ UNCHANGED <<accessToken, user, headerOverrides, storedToken, storedUser,
                              storedHeaders, lastAuth>>
    /\ UNCHANGED <<exceptAuth, authCalls>>

-----------------------------------------------------------------------------
(* The profile update payload *)

\* String(value).replace(/[^0-9]/g, '').slice(0, 3), '' for null or undefined
sanitizePlayerNumber(value) ==
    IF value = NullStr THEN <<>>
    ELSE LET digits == SelectSeq(value, IsDigit) IN
         SubSeq(digits, 1, Min(3, Len(digits)))

\* serializeTeamCountry(country): a string
serializeTeamCountry(country) ==
    IF country = NullRec THEN <<>>
    ELSE IF "text" \in DOMAIN country THEN trim(country.text)
    ELSE IF IsTextWithContent(country.name) THEN trim(country.name)
    ELSE IF IsTextWithContent(country.code) THEN trim(country.code)
    ELSE <<>>

\* a string as a value of the payload
Text(s) == [text |-> s]

\* value || ''
OrEmptyText(value) == IF value = NullStr THEN <<>> ELSE value

\* the payload: a function from the keys set to their values
buildProfileUpdatePayload(u, team, country, number) ==
    LET nextTeam == trim(team)
        currentTeamName == IF u = NullRec THEN <<>> ELSE trim(OrEmptyText(u.currentTeam))
        currentCountry == serializeTeamCountry(IF u = NullRec THEN NullRec ELSE u.currentTeamCountry)
        draftCountry == serializeTeamCountry(country)
        sanitizedDraftNumber == sanitizePlayerNumber(number)
        currentPlayerNumber == sanitizePlayerNumber(IF u = NullRec THEN NullStr ELSE u.playerNumber)
        keys == (IF nextTeam # currentTeamName THEN {"currentTeam"} ELSE {})
                \cup (IF draftCountry # currentCountry THEN {"country", "currentTeamCountry"} ELSE {})
                \cup (IF sanitizedDraftNumber # currentPlayerNumber THEN {"playerNumber"} ELSE {})
        payloadBuilt == [k \in keys |->
                           IF k = "currentTeam" THEN Text(nextTeam)
                           ELSE IF k = "playerNumber" THEN Text(sanitizedDraftNumber)
                           ELSE Text(draftCountry)]
    IN  [payload |-> payloadBuilt, hasChanges |-> keys # {}]

BuildProfileUpdatePayload ==
    /\ profilePlan = Pending
    /\ profilePlan' = buildProfileUpdatePayload(currentUser, teamDraft, teamCountryDraft,
                                                playerNumberDraft)
    /\ UNCHANGED <<exceptProfile, currentUser, teamDraft, teamCountryDraft, playerNumberDraft>>

(* UploadManager: creating a session, uploading, finalizing, cancelling *)

\* the files the user may select; the server answers createSession with one
\* pre-signed URL per part of the file
ManagerFiles ==
    {[name |-> Chars("match.mp4"), parts |-> 1], [name |-> Chars("final.mp4"), parts |-> 2]}

\* splitFileName(fileName).base, for a name with an extension
BaseName(fileName) ==
    SubSeq(fileName, 1, (CHOOSE i \in 1..Len(fileName) :
                            fileName[i] = "." /\ \A j \in (i + 1)..Len(fileName) : fileName[j] # ".") - 1)

MaxUploads == 1
MaxCancelsPending == 1

busyStatuses == {"creating", "uploading", "finalizing"}

\* reset({ preserveSuccess })
ManagerReset(preserveSuccess) ==
    /\ managerSession' = NullRec
    /\ managerParts' = <<>>
    /\ managerStatus' = "idle"
    /\ managerError' = NullStr
    /\ managerProgress' = 0
    /\ customFileBase' = <<>>
    /\ managerFile' = NullRec

\* what upload id's chain does is noted when cancelUpload was invoked for it
NotedAfterCancel(id, event) ==
    IF uploads[id].cancelled THEN afterCancel \cup {<<id, event>>} ELSE afterCancel

At(id, pc) == [uploads EXCEPT ![id].pc = pc]

\* the file input
handleFileChange ==
    /\ \E selected \in ManagerFiles \cup {NullRec} :
          /\ managerFile' = selected
          /\ customFileBase' = IF selected = NullRec THEN <<>> ELSE BaseName(selected.name)
    /\ managerSession' = NullRec
    /\ managerParts' = <<>>
    /\ managerStatus' = "idle"
    /\ managerError' = NullStr
    /\ managerProgress' = 0
    /\ recentSuccess' = NullStr
    /\ UNCHANGED <<exceptManager, controllerRef, controllers, uploads, cancelPending,
                   recordedUploads, afterCancel>>

\* the Start upload button, disabled by disableStart: createSession up to its await
createSession ==
    /\ managerFile # NullRec
    /\ customFileBase # <<>>
    /\ managerStatus \notin busyStatuses
    /\ Len(uploads) < MaxUploads
    /\ managerStatus' = "creating"
    /\ managerError' = NullStr
    /\ uploads' = Append(uploads, [pc |-> "creating", file |-> managerFile, partsDone |-> 0,
                                   cancelled |-> FALSE])
    /\ controllers' = Append(controllers, "none")
    /\ UNCHANGED <<exceptManager, managerFile, customFileBase, managerSession, managerParts,
                   managerProgress, recentSuccess, controllerRef, cancelPending, recordedUploads,
                   afterCancel>>

\* api.upload.createSession resolves: the session is stored and uploadChunks
\* runs up to its await
SessionCreated ==
    \E id \in 1..Len(uploads) :
        /\ uploads[id].pc = "creating"
        /\ managerSession' = [upload |-> id]
        /\ controllers' = [controllers EXCEPT ![id] = "live"]
        /\ controllerRef' = id
        /\ managerStatus' = "uploading"
        /\ uploads' = At(id, "uploading")
        /\ UNCHANGED <<exceptManager, managerFile, customFileBase, managerParts, managerError,
                       managerProgress, recentSuccess, cancelPending, recordedUploads, afterCancel>>

\* the catch block of createSession, for the error err of upload id
CaughtByCreateSession(id) ==
    /\ managerError' = Chars("Request failed")
    /\ managerStatus' = "error"
    /\ uploads' = At(id, "done")
    /\ afterCancel' = NotedAfterCancel(id, "error")

\* api.upload.createSession rejects
CreateSessionFails ==
    \E id \in 1..Len(uploads) :
        /\ uploads[id].pc = "creating"
        /\ CaughtByCreateSession(id)
        /\ UNCHANGED <<exceptManager, managerFile, customFileBase, managerSession, managerParts,
                       managerProgress, recentSuccess, controllerRef, controllers, cancelPending,
                       recordedUploads>>

\* uploadPartsSequentially has a part uploaded that is not the last one:
\* onProgress stores the percentage
PartUploaded ==
    \E id \in 1..Len(uploads) :
        /\ uploads[id].pc = "uploading"
        /\ controllers[id] = "live"
        /\ uploads[id].partsDone + 1 < uploads[id].file.parts
        /\ uploads' = [uploads EXCEPT ![id].partsDone = @ + 1]
        /\ managerProgress' = Percent(uploads[id].partsDone + 1, uploads[id].file.parts)
        /\ afterCancel' = NotedAfterCancel(id, "part")
        /\ UNCHANGED <<exceptManager, managerFile, customFileBase, managerSession, managerParts,
                       managerStatus, managerError, recentSuccess, controllerRef, controllers,
                       cancelPending, recordedUploads>>

\* the last part is uploaded and uploadPartsSequentially resolves: the parts
\* are stored and finalizeUpload runs up to its await of api.upload.complete
LastPartUploaded ==
    \E id \in 1..Len(uploads) :
        /\ uploads[id].pc = "uploading"
        /\ controllers[id] = "live"
        /\ uploads[id].partsDone + 1 = uploads[id].file.parts
        /\ uploads' = [uploads EXCEPT ![id].partsDone = @ + 1, ![id].pc = "finalizing"]
        /\ managerProgress' = 100
        /\ managerParts' = [n \in 1..uploads[id].file.parts |-> n]
        /\ managerStatus' = "finalizing"
        /\ afterCancel' = IF uploads[id].cancelled
                          THEN afterCancel \cup {<<id, "part">>, <<id, "complete">>}
                          ELSE afterCancel
        /\ UNCHANGED <<exceptManager, managerFile, customFileBase, managerSession, managerError,
                       recentSuccess, controllerRef, controllers, cancelPending, recordedUploads>>

\* uploadPartsSequentially rejects with an AbortError: the signal was aborted
UploadAborted ==
    \E id \in 1..Len(uploads) :
        /\ uploads[id].pc = "uploading"
        /\ controllers[id] = "aborted"
        /\ managerStatus' = "idle"
        /\ uploads' = At(id, "done")
        /\ UNCHANGED <<exceptManager, managerFile, customFileBase, managerSession, managerParts,
                       managerError, managerProgress, recentSuccess, controllerRef, controllers,
                       cancelPending, recordedUploads, afterCancel>>

\* uploadPartsSequentially rejects with another error: uploadChunks rethrows
\* it to createSession
UploadFails ==
    \E id \in 1..Len(uploads) :
        /\ uploads[id].pc = "uploading"
        /\ controllers[id] = "live"
        /\ CaughtByCreateSession(id)
        /\ UNCHANGED <<exceptManager, managerFile, customFileBase, managerSession, managerParts,
                       managerProgress, recentSuccess, controllerRef, controllers, cancelPending,
                       recordedUploads>>

\* api.upload.complete resolves: the upload is recorded and the view reset
CompleteResolves ==
    \E id \in 1..Len(uploads) :
        /\ uploads[id].pc = "finalizing"
        /\ recordedUploads' = Append(recordedUploads, id)
        /\ recentSuccess' = Chars("\"") \o BaseName(uploads[id].file.name) \o Chars(".mp4\" uploaded.")
        /\ ManagerReset(TRUE)
        /\ uploads' = At(id, "done")
        /\ afterCancel' = NotedAfterCancel(id, "record")
        /\ UNCHANGED <<exceptManager, controllerRef, controllers, cancelPending>>

\* api.upload.complete rejects: the catch block of finalizeUpload
CompleteRejects ==
    \E id \in 1..Len(uploads) :
        /\ uploads[id].pc = "finalizing"
        /\ managerError' = Chars("Request failed")
        /\ managerStatus' = "error"
        /\ uploads' = At(id, "done")
        /\ afterCancel' = NotedAfterCancel(id, "error")
        /\ UNCHANGED <<exceptManager, managerFile, customFileBase, managerSession, managerParts,
                       managerProgress, recentSuccess, controllerRef, controllers, cancelPending,
                       recordedUploads>>

\* the upload cancelUpload is invoked for: the latest one, while the status
\* is one of creating, uploading, finalizing and its chain has not ended
UploadShown ==
    IF /\ uploads # <<>>
       /\ uploads[Len(uploads)].pc # "done"
       /\ managerStatus \in busyStatuses
    THEN Len(uploads) ELSE 0

MarkCancelled ==
    IF UploadShown = 0 THEN uploads ELSE [uploads EXCEPT ![UploadShown].cancelled = TRUE]

\* the Cancel button, shown while a file is selected: cancelUpload up to its
\* await of api.upload.cancel, or to its end when there is no session
cancelUpload ==
    /\ managerFile # NullRec
    /\ managerSession # NullRec => cancelPending < MaxCancelsPending
    /\ controllers' = IF controllerRef = 0 THEN controllers
                      ELSE [controllers EXCEPT ![controllerRef] = "aborted"]
    /\ uploads' = MarkCancelled
    /\ IF managerSession # NullRec
       THEN /\ cancelPending' = cancelPending + 1
            /\ UNCHANGED <<managerFile, customFileBase, managerSession, managerParts, managerStatus,
                           managerError, managerProgress, recentSuccess>>
       ELSE /\ ManagerReset(FALSE)
            /\ recentSuccess' = NullStr
            /\ UNCHANGED cancelPending
    /\ UNCHANGED <<exceptManager, controllerRef, recordedUploads, afterCancel>>

\* api.upload.cancel resolves or rejects: cancelUpload ends with reset()
CancelSettles ==
    /\ cancelPending > 0
    /\ cancelPending' = cancelPending - 1
    /\ ManagerReset(FALSE)
    /\ recentSuccess' = NullStr
    /\ UNCHANGED <<exceptManager, controllerRef, controllers, uploads, recordedUploads, afterCancel>>

\* the button of the success banner
DismissSuccess ==
    /\ recentSuccess # NullStr
    /\ recentSuccess' = NullStr
    /\ UNCHANGED <<exceptManager, managerFile, customFileBase, managerSession, managerParts,
                   managerStatus, managerError, managerProgress, controllerRef, controllers,
                   uploads, cancelPending, recordedUploads, afterCancel>>

-----------------------------------------------------------------------------

(* completedUploadsStorage: the list of completed uploads of each user *)

FALLBACK_USER == Chars("anonymous")
MAX_ENTRIES_PER_USER == 25

\* a field that is undefined
Undefined == <<"undefined">>

\* JSON.parse(JSON.stringify(entry)): a field that is undefined is left out
StoredForm(entry) ==
    IF entry.bucket = Undefined
    THEN [id |-> entry.id, uploadedAt |-> entry.uploadedAt, fileKey |-> entry.fileKey]
    ELSE entry

\* all[ownerKey] ?? []
ListOf(all, ownerKey) == IF ownerKey \in DOMAIN all THEN all[ownerKey] ELSE <<>>

\* array.slice(0, n)
SliceFromStart(array, n) == SubSeq(array, 1, Min(n, Len(array)))

\* a faulty variant of NextEntries: the new entry is put last
NextEntriesOldestFirst(entry, existing) ==
    SliceFromStart(existing \o <<entry>>, MAX_ENTRIES_PER_USER)

\* [entry, ...existing].slice(0, MAX_ENTRIES_PER_USER)
NextEntries(entry, existing) == SliceFromStart(<<entry>> \o existing, MAX_ENTRIES_PER_USER)

\* all[ownerKey] = next
WithList(all, ownerKey, next) ==
    [k \in DOMAIN all \cup {ownerKey} |-> IF k = ownerKey THEN next ELSE all[k]]

\* recordCompletedUpload(userId, uploadPayload) as the n-th call: generateId() and
\* the clock yield values no earlier call had; localStorage.setItem may throw,
\* which writeAll catches
recordCompletedUpload(userId, uploadPayload, n, written) ==
    IF uploadPayload = NullRec \/ uploadPayload.fileKey = NullStr \/ uploadPayload.fileKey = <<>>
    THEN /\ lastEntry' = NullRec
         /\ recordLog' = Append(recordLog, [owner |-> NullStr, entry |-> NullRec, written |-> FALSE])
         /\ UNCHANGED storedUploads
    ELSE LET ownerKey == IF userId = NullStr \/ userId = <<>> THEN FALLBACK_USER ELSE userId
             entry == [id |-> n, uploadedAt |-> n, fileKey |-> uploadPayload.fileKey,
                       bucket |-> uploadPayload.bucket]
             next == NextEntries(StoredForm(entry), ListOf(storedUploads, ownerKey))
         IN  /\ storedUploads' = IF written THEN WithList(storedUploads, ownerKey, next)
                                 ELSE storedUploads
             /\ lastEntry' = entry
             /\ recordLog' = Append(recordLog, [owner |-> ownerKey, entry |-> entry,
                                                written |-> written])

-----------------------------------------------------------------------------

-----------------------------------------------------------------------------
(* Specification of parsePlayerLine over bounded lines *)

MaxLineTokens == 4

ParseTokenPool ==
    {Chars("7"), Chars("12"), Chars("1234"), Chars("L"), Chars("Ana"),
     Chars("Silva"), Chars("."), Chars("88%"), Chars("7 l"), Chars("#")}

RECURSIVE SeqsUpTo(_, _)
SeqsUpTo(S, n) ==
    IF n = 0 THEN {<<>>}
    ELSE LET shorter == SeqsUpTo(S, n - 1) IN
         shorter \cup {Append(s, x) : s \in {t \in shorter : Len(t) = n - 1}, x \in S}

IdleParse == line = <<>> /\ parsed = Pending

IdleExtract ==
    /\ lineFacts = <<>> /\ lines = <<>> /\ index = 0 /\ currentTeam = NullStr /\ playersFound = <<>>
    /\ lastPlayerLineIndex = -1 /\ playersTotalCount = 0 /\ extracted = Pending
    /\ emittedAt = <<>>

IdleMap ==
    /\ safeTokens = <<>> /\ columnAnchors = NullAnchors /\ columnLabels = <<>>
    /\ result = <<>> /\ occupied = <<>> /\ tokenIndex = 0 /\ mapPc = "idle"

IdleGroup == items = <<>> /\ grouped = NoArray /\ firstGrouped = NoArray

IdleMeta == metaLines = <<>> /\ matchDate = <<>> /\ matchTime = <<>> /\ metaPc = "idle"

NoPayload == [idle |-> TRUE]

IdleLayout ==
    /\ layoutLines = <<>> /\ layoutPlayers = <<>> /\ setColumnCount = DEFAULT_SET_COLUMNS
    /\ inferredAnchors = NullAnchors /\ detectedSetCount = 0 /\ effectiveColumnLabels = <<>>
    /\ layoutPc = "idle"

IdlePayload ==
    /\ playersData = <<>> /\ payloadColumnLabels = <<>> /\ setColumns = DEFAULT_SET_COLUMNS
    /\ matchDateValue = <<>> /\ matchTimeValue = <<>> /\ payload = NoPayload

IdleSlice ==
    /\ sliceFile = NullRec /\ sliceChunkSizeBytes = 0 /\ sliceOffset = 0 /\ slicePartNumber = 1
    /\ sliceParts = <<>> /\ slicePc = "idle"

IdleUpload ==
    /\ uploadFile = NullRec /\ urls = <<>> /\ uploadChunkSizeBytes = 0 /\ retries = DEFAULT_RETRIES
    /\ canUseXHR = FALSE /\ signalAborted = FALSE /\ urlIndex = 1 /\ attempt = 0
    /\ uploadedBytes = 0 /\ completedParts = <<>> /\ partUploaded = 0 /\ requests = <<>>
    /\ progress = <<>> /\ uploadError = NullStr /\ uploadPc = "idle"

IdleAuth ==
    /\ accessToken = NullStr /\ user = NullRec /\ loading = FALSE /\ headerOverrides = NoOverrides
    /\ storedToken = NullStr /\ storedUser = NullRec /\ storedHeaders = NullRec
    /\ authCalls = 0 /\ meCalls = {} /\ lastAuth = [op |-> "idle"]

IdleProfile ==
    /\ currentUser = NullRec /\ teamDraft = <<>> /\ teamCountryDraft = NullRec
    /\ playerNumberDraft = <<>> /\ profilePlan = NoPayload

IdleSubmit ==
    /\ tablePlayers = <<>> /\ parseLoading = FALSE /\ parseError = NullStr /\ isUploadVisible = TRUE
    /\ isSubmitting = FALSE /\ submitError = NullStr /\ submitSuccess = NullStr /\ toast = NullRec
    /\ parseInFlight = {} /\ selections = 0 /\ shownSelection = 0 /\ sent = <<>>

IdleManager ==
    /\ managerFile = NullRec /\ customFileBase = <<>> /\ managerSession = NullRec
    /\ managerParts = <<>> /\ managerStatus = "idle" /\ managerError = NullStr
    /\ managerProgress = 0 /\ recentSuccess = NullStr /\ controllerRef = 0
    /\ controllers = <<>> /\ uploads = <<>> /\ cancelPending = 0
    /\ recordedUploads = <<>> /\ afterCancel = {}

IdleStorage == storedUploads = <<>> /\ lastEntry = NullRec /\ recordLog = <<>>

InitParse ==
    /\ line \in SeqsUpTo(ParseTokenPool, MaxLineTokens)
    /\ parsed = Pending
    /\ IdleExtract /\ IdleMap /\ IdleGroup /\ IdleMeta /\ IdlePayload /\ IdleLayout /\ IdleSlice /\ IdleUpload /\ IdleAuth /\ IdleProfile /\ IdleSubmit /\ IdleManager /\ IdleStorage

ParsePlayerLine ==
    /\ parsed = Pending
    /\ parsed' = parsePlayerLine(line)
    /\ UNCHANGED <<line, exceptParse>>

NextParse == ParsePlayerLine

SpecParse == InitParse /\ [][NextParse]_vars

-----------------------------------------------------------------------------
(* Specification of extractPlayers over bounded line sequences *)

MaxLines == 4

InitExtract ==
    /\ lineFacts = LineFacts
    /\ lines \in SeqsUpTo(LinePool, MaxLines) \cup {ScenarioLines}
    /\ index = 0
    /\ currentTeam = NullStr
    /\ playersFound = <<>>
    /\ lastPlayerLineIndex = -1
    /\ playersTotalCount = 0
    /\ extracted = Pending
    /\ emittedAt = <<>>
    /\ IdleParse /\ IdleMap /\ IdleGroup /\ IdleMeta /\ IdlePayload /\ IdleLayout /\ IdleSlice /\ IdleUpload /\ IdleAuth /\ IdleProfile /\ IdleSubmit /\ IdleManager /\ IdleStorage

NextExtract ==
    \/ SkipEmptyLine
    \/ PlayersTotalReset
    \/ PlayersTotalReturn
    \/ TeamHeaderLine
    \/ SectionTerminatorLine
    \/ NoTeamLine
    \/ NotPlayerLine
    \/ EmitPlayer
    \/ ReturnAtEnd

SpecExtract == InitExtract /\ [][NextExtract]_vars

-----------------------------------------------------------------------------
(* Specification of mapTokensToColumns over bounded arguments *)

MaxMapTokens == 3
MaxLabels == 3

MapTokenPool ==
    {[text |-> Chars("12"), x |-> 0, width |-> 4, height |-> 10],
     [text |-> Chars("(5)"), x |-> 11, width |-> 6, height |-> 10],
     [text |-> Chars("()"), x |-> 20, width |-> 4, height |-> 10],
     [text |-> Chars("."), x |-> 60, width |-> 2, height |-> 30]}

\* two rows of n anchors, left to right: one of columns 10 apart, one further
\* right whose anchors carry no height
AnchorRowA(n) == [i \in 1..n |-> AnchorOf(10 * (i - 1), 4, 10)]
AnchorRowB(n) == [i \in 1..n |-> AnchorOf(50 + 12 * (i - 1), 6, 0)]

LabelRow(n) == SubSeq(<<"1", "2">> \o PostSetLabels, 1, n)

InitMap ==
    /\ safeTokens \in SeqsUpTo(MapTokenPool, MaxMapTokens)
    /\ columnLabels \in {LabelRow(n) : n \in 0..MaxLabels}
    /\ columnAnchors \in {NullAnchors} \cup {AnchorRowA(n) : n \in 0..(MaxLabels + 1)}
                            \cup {AnchorRowB(n) : n \in 1..(MaxLabels + 1)}
    /\ result = <<>>
    /\ occupied = <<>>
    /\ tokenIndex = 0
    /\ mapPc = "start"
    /\ IdleParse /\ IdleExtract /\ IdleGroup /\ IdleMeta /\ IdlePayload /\ IdleLayout /\ IdleSlice /\ IdleUpload /\ IdleAuth /\ IdleProfile /\ IdleSubmit /\ IdleManager /\ IdleStorage

NextMap ==
    \/ MapPositional
    \/ MapBegin
    \/ MapSkipToken
    \/ MapAssignToken
    \/ MapDropToken
    \/ MapReturn

SpecMap == InitMap /\ [][NextMap]_vars

-----------------------------------------------------------------------------
(* Claims about mapTokensToColumns *)

MapDone == mapPc = "done"

\* the positions that received a token: the occupied anchors on the anchored
\* path, and on the positional path the indexes that have a token whose text
\* is not empty once its parentheses are removed
Received(i) ==
    IF AnchorsUsable THEN occupied[i]
    ELSE i <= Len(safeTokens) /\ normalizeTokenText(safeTokens[i].text) # <<>>

\* C1 as stated: for every columnLabels array the returned array has exactly
\* columnLabels.length entries and every position that received no token
\* holds ".".
C1_LengthIsLabelsLength ==
    MapDone =>
        /\ Len(result) = Len(columnLabels)
        /\ \A i \in 1..Len(result) : ~Received(i) => result[i] = <<".">>

\* C1 amended: for every non-empty columnLabels array the returned array has
\* exactly columnLabels.length entries, for an empty one it has the 21 entries
\* of the default labels (4 set columns and the 17 fixed ones); in both cases every position that received no token
\* holds exactly ".", and every other position holds a non-empty text.
C1_LengthIsLabelsLengthOrDefault ==
    MapDone =>
        /\ Len(columnLabels) > 0 => Len(result) = Len(columnLabels)
        /\ Len(columnLabels) = 0 => Len(result) = 21
        /\ \A i \in 1..Len(result) : ~Received(i) => result[i] = <<".">>
        /\ \A i \in 1..Len(result) : Received(i) => result[i] # <<>>

C1_Witness ==
    /\ MapDone
    /\ Len(columnLabels) = 3
    /\ Len(columnAnchors) = 3 /\ columnAnchors # NullAnchors
    /\ Len(safeTokens) = 3
    /\ \E i \in 1..3 : ~occupied[i] /\ result[i] = <<".">>
    /\ \E i \in 1..3 : occupied[i] /\ result[i] = Chars("5")

\* the tokens among the first n whose text is not empty once normalized
NonEmptyAmong(n) == {k \in 1..n : normalizeTokenText(safeTokens[k].text) # <<>>}

OccupiedAnchors(occ) == {i \in 1..Len(occ) : occ[i]}

\* while the tokens are processed, as many anchors are occupied as non-empty
\* tokens were seen, up to the number of anchors
OneTokenPerAnchor ==
    mapPc = "loop" =>
        Cardinality(OccupiedAnchors(occupied)) =
            Min(Cardinality(NonEmptyAmong(tokenIndex)), Len(columnAnchors))

\* one token is processed: the next one in order; an empty one changes
\* nothing; a non-empty one takes an unoccupied anchor of lowest score, whose
\* cell receives its value while every other cell and every occupied mark
\* stays, and it changes nothing only when no anchor is unoccupied
GreedyStep ==
    (mapPc = "loop" /\ tokenIndex' # tokenIndex) =>
        LET token == safeTokens[tokenIndex + 1]
            value == normalizeTokenText(token.text)
            free == {i \in 1..Len(columnAnchors) : ~occupied[i]}
            taken == OccupiedAnchors(occupied') \ OccupiedAnchors(occupied)
        IN  /\ tokenIndex' = tokenIndex + 1
            /\ OccupiedAnchors(occupied) \subseteq OccupiedAnchors(occupied')
            /\ \A i \in OccupiedAnchors(occupied) : result'[i] = result[i]
            /\ value = <<>> => result' = result /\ occupied' = occupied
            /\ (value # <<>> /\ free = {}) => result' = result /\ occupied' = occupied
            /\ (value # <<>> /\ free # {}) =>
                  \E i \in free :
                      /\ taken = {i}
                      /\ \A j \in free : Score2(columnAnchors[i], token) <= Score2(columnAnchors[j], token)
                      /\ result' = [result EXCEPT ![i] = value]

\* C21: with anchors as many as the labels, the tokens are processed in
\* their order, each non-empty token takes the lowest-scoring anchor still
\* unoccupied, an assigned cell is never overwritten, at most one token goes
\* to an anchor, and a token is dropped only when every anchor is occupied.
C21_GreedyOneTokenPerAnchor ==
    /\ []OneTokenPerAnchor
    /\ [][GreedyStep]_vars

\* three non-empty tokens on two anchors: the third one was dropped
C21_Witness ==
    /\ MapDone
    /\ AnchorsUsable
    /\ Len(columnAnchors) = 2
    /\ Cardinality(NonEmptyAmong(Len(safeTokens))) = 3
    /\ occupied = <<TRUE, TRUE>>
    /\ result = <<Chars("12"), Chars("5")>>

-----------------------------------------------------------------------------
(* Specification of groupLines over bounded token lists *)

MaxItems == 3

Item(str, x, y, page) ==
    [str |-> str, x |-> x, y |-> y, width |-> 4, height |-> 10, page |-> page]

ItemPool ==
    {Item("a", 10, 100, 1), Item("b", 50, 101, 1), Item("c", 30, 103, 1),
     Item("d", 10, 200, 1), Item("e", 20, 100, 2)}

\* the lists of distinct tokens of the pool, of length n at most
DistinctSeqsUpTo(S, n) ==
    {s \in SeqsUpTo(S, n) : \A i, j \in 1..Len(s) : i # j => s[i] # s[j]}

InitGroup ==
    /\ items \in DistinctSeqsUpTo(ItemPool, MaxItems)
    /\ grouped = NoArray
    /\ firstGrouped = NoArray
    /\ IdleParse /\ IdleExtract /\ IdleMap /\ IdleMeta /\ IdlePayload /\ IdleLayout /\ IdleSlice /\ IdleUpload /\ IdleAuth /\ IdleProfile /\ IdleSubmit /\ IdleManager /\ IdleStorage

NextGroup ==
    \/ GroupLinesCall
    \/ ReorderItems

SpecGroup == InitGroup /\ [][NextGroup]_vars

-----------------------------------------------------------------------------
(* Claims about groupLines *)

\* which tokens end up together in one Line
Groupings(ls) == {{ls[i].tokens[k].str : k \in 1..Len(ls[i].tokens)} : i \in 1..Len(ls)}

BothGrouped == grouped # NoArray /\ firstGrouped # NoArray

\* "within tolerance" is transitive on the y of the tokens
ToleranceTransitive ==
    \A i, j, k \in 1..Len(items) :
        (2 * Abs(items[i].y - items[j].y) <= 5 /\ 2 * Abs(items[j].y - items[k].y) <= 5)
            => 2 * Abs(items[i].y - items[k].y) <= 5

\* C7 as stated: the set of line groupings is the same for every permutation
\* of the input token list.
C7_GroupingsOrderIndependent ==
    BothGrouped => Groupings(grouped) = Groupings(firstGrouped)

\* C7 amended: when "within tolerance" is transitive on the tokens' y values
\* (no token is within 2.5 of two tokens that are more than 2.5 apart), the
\* set of line groupings is the same for every permutation of the token list,
\* and with pairwise distinct x the Lines themselves are the same: the order
\* of the tokens inside a line depends on x only.
C7_GroupingsOrderIndependentIfTransitive ==
    (BothGrouped /\ ToleranceTransitive) =>
        /\ Groupings(grouped) = Groupings(firstGrouped)
        /\ (\A i, j \in 1..Len(items) : i # j => items[i].x # items[j].x)
              => grouped = firstGrouped

C7_Witness ==
    /\ BothGrouped
    /\ items = <<Item("b", 50, 101, 1), Item("d", 10, 200, 1), Item("a", 10, 100, 1)>>
    /\ Groupings(grouped) = {{"a", "b"}, {"d"}}
    /\ Groupings(firstGrouped) = {{"a", "b"}, {"d"}}
    /\ grouped[2].tokens[1].str = "a"

\* the positions (line, place) of grouped at which the token named str stands
PlacesOf(str) ==
    {<<i, k>> \in (1..Len(grouped)) \X (1..MaxItems) :
        k <= Len(grouped[i].tokens) /\ grouped[i].tokens[k].str = str}

\* every input token stands at exactly one place, and no other token does
EachTokenInOneLine ==
    /\ \A n \in 1..Len(items) : Cardinality(PlacesOf(items[n].str)) = 1
    /\ \A i \in 1..Len(grouped) : \A k \in 1..Len(grouped[i].tokens) :
          \E n \in 1..Len(items) :
              /\ grouped[i].tokens[k].str = items[n].str
              /\ grouped[i].tokens[k].x = items[n].x

TokensAscendingX ==
    \A i \in 1..Len(grouped) : \A k \in 1..(Len(grouped[i].tokens) - 1) :
        grouped[i].tokens[k].x <= grouped[i].tokens[k + 1].x

TokensOnTheLinePage ==
    \A i \in 1..Len(grouped) : \A k \in 1..Len(grouped[i].tokens) :
        \A n \in 1..Len(items) :
            items[n].str = grouped[i].tokens[k].str => items[n].page = grouped[i].page

LinesOrdered ==
    \A i \in 1..(Len(grouped) - 1) :
        \/ grouped[i].page < grouped[i + 1].page
        \/ /\ grouped[i].page = grouped[i + 1].page
           /\ grouped[i].ySum * grouped[i + 1].count >= grouped[i + 1].ySum * grouped[i].count

\* the Lines are those of the current order of the items
GroupedCurrent == grouped # NoArray /\ grouped = groupLines(items)

\* C30: every input token is in exactly one Line, the tokens of a Line are in
\* ascending x, every token of a Line lies on the page recorded as the Line's
\* page, and the Lines are ordered by page ascending and then y descending.
C30_LinesPartitionTokensPageByPage ==
    GroupedCurrent =>
        /\ EachTokenInOneLine
        /\ TokensAscendingX
        /\ TokensOnTheLinePage
        /\ LinesOrdered

-----------------------------------------------------------------------------
(* Specification of the date and time detection over bounded texts *)

\* the days, months, hours and minutes tried; every two-digit year is tried
DayNumbers == {0, 1, 12, 13, 15, 31, 32}
MonthNumbers == {0, 1, 3, 12, 13, 15}
HourNumbers == {0, 1, 7, 11, 12, 13, 19, 23}
MinuteTexts == {Chars("00"), Chars("30"), Chars("59"), Chars("75")}
MeridiemTexts == {<<>>, Chars("am"), Chars("pm"), Chars(" PM")}
TwoDigitYears == 0..99

\* a number as the report prints it: as it is, or zero-padded to two digits
Printed(n) == {toString(n), pad(n)}

DateTexts ==
    {dm[1] \o <<"/">> \o dm[2] \o <<"/">> \o pad(yy) :
        dm \in {<<Chars("15"), Chars("03")>>, <<Chars("3"), Chars("15")>>},
        yy \in TwoDigitYears}
    \cup
    {d \o <<sep>> \o m \o <<sep>> \o yy :
        d \in UNION {Printed(n) : n \in DayNumbers},
        m \in UNION {Printed(n) : n \in MonthNumbers},
        sep \in {"/", "."},
        yy \in {Chars("24"), Chars("99")}}
    \cup {Chars("15-03-2024"), Chars("3/15/1999")}

TimeTexts ==
    {h \o <<sep>> \o mm \o secs \o mer :
        h \in UNION {Printed(n) : n \in HourNumbers},
        sep \in {":", "h", ","},
        mm \in MinuteTexts,
        secs \in {<<>>, Chars(":15")},
        mer \in MeridiemTexts}

\* the lines of a report header: the date and the time on one line or on two
HeaderLines(dateText, timeText) ==
    {<<<<Chars("Date:"), dateText, Chars("Time:"), timeText>>>>,
     <<<<Chars("Match 12")>>, <<Chars("Date:"), dateText>>, <<Chars("Time:"), timeText>>>>}

InitMeta ==
    /\ metaLines \in UNION ({HeaderLines(d, Chars("7:30pm")) : d \in DateTexts}
                            \cup {HeaderLines(Chars("15/03/24"), t) : t \in TimeTexts})
    /\ matchDate = <<>>
    /\ matchTime = <<>>
    /\ metaPc = "start"
    /\ IdleParse /\ IdleExtract /\ IdleMap /\ IdleGroup /\ IdlePayload /\ IdleLayout /\ IdleSlice /\ IdleUpload /\ IdleAuth /\ IdleProfile /\ IdleSubmit /\ IdleManager /\ IdleStorage

NextMeta == StoreMatchMetadata

SpecMeta == InitMeta /\ [][NextMeta]_vars

-----------------------------------------------------------------------------
(* Claims about the date and time detection *)

MetaDone == metaPc = "done"

\* the date text of the header, where the model put it
DateTextOf(ls) == IF Len(ls) = 1 THEN ls[1][2] ELSE ls[2][2]
TimeTextOf(ls) == IF Len(ls) = 1 THEN ls[1][4] ELSE ls[3][2]

\* the day, month and two-digit year of a text D/M/YY
DatePieces(text) == splitOn(text, DateSeparators)

\* C8: a matched date D/M/YY with a valid day and month yields matchDate
\* YYYY-MM-DD, the year being 19YY for YY >= 70 and 20YY for YY < 70, day and
\* month swapped when month > 12 and day <= 12; 15/03/24 gives 2024-03-15.
C8_DatePivotAndSwap ==
    LET pieces == DatePieces(DateTextOf(metaLines))
        d == toNumber(pieces[1])
        m == toNumber(pieces[2])
        yy == toNumber(pieces[3])
        swapped == m > 12 /\ d <= 12
        day == IF swapped THEN m ELSE d
        month == IF swapped THEN d ELSE m
        year == IF yy >= 70 THEN 1900 + yy ELSE 2000 + yy
    IN  /\ (MetaDone /\ Len(pieces[3]) = 2 /\ day \in 1..31 /\ month \in 1..12) =>
              matchDate = toString(year) \o <<"-">> \o pad(month) \o <<"-">> \o pad(day)
        /\ (MetaDone /\ DateTextOf(metaLines) = Chars("15/03/24")) =>
              matchDate = Chars("2024-03-15")

\* C9: every non-null matchTime is a valid 24-hour HH:MM string, HH in 00..23
\* and MM in 00..59, after the 12-hour to 24-hour conversion (pm adds 12 to
\* hours below 12, 12am becomes 00); 7:30pm gives 19:30.
C9_TimeIsValid24h ==
    /\ (MetaDone /\ matchTime # <<>>) =>
          /\ Len(matchTime) = 5
          /\ matchTime[3] = ":"
          /\ AllDigits(SubSeq(matchTime, 1, 2)) /\ toNumber(SubSeq(matchTime, 1, 2)) \in 0..23
          /\ AllDigits(SubSeq(matchTime, 4, 5)) /\ toNumber(SubSeq(matchTime, 4, 5)) \in 0..59
    /\ (MetaDone /\ TimeTextOf(metaLines) = Chars("7:30pm")) => matchTime = Chars("19:30")

-----------------------------------------------------------------------------
(* Specification of buildMatchReportPayload over bounded players and labels *)

MaxPlayers == 2
MaxPayloadLabels == 2

\* a player as extractPlayers and mapTokensToColumns leave it
Player(number, name, team, columnValues) ==
    [number |-> number, name |-> Chars(name), team |-> team,
     statTokens |-> <<>>, rawStats |-> <<>>, lineText |-> Chars(name),
     columnValues |-> columnValues]

PlayerPool ==
    {Player(7, "Ana", Chars("TEAM ALPHA"), <<Chars("7")>>),
     Player(12, "Bia", Chars("TEAM ALPHA"), <<Chars("5"), Chars("3"), Chars("88%")>>),
     Player(3, "Carla", Chars("TEAM BETA"), <<>>),
     Player(9, "Dani", NullStr, UndefinedValues),
     Player(1, "Eva", Chars("TEAM BETA"), <<Chars("."), Chars("4")>>)}

PayloadLabelPool == {Chars("Tot"), Chars("Vote"), Chars("Pts")}

InitPayload ==
    /\ playersData \in SeqsUpTo(PlayerPool, MaxPlayers)
    /\ payloadColumnLabels \in SeqsUpTo(PayloadLabelPool, MaxPayloadLabels)
    /\ setColumns = DEFAULT_SET_COLUMNS
    /\ \E detected \in {<<<<>>, <<>>>>, <<Chars("2024-03-15"), Chars("19:30")>>} :
          matchDateValue = detected[1] /\ matchTimeValue = detected[2]
    /\ payload = Pending
    /\ IdleParse /\ IdleExtract /\ IdleMap /\ IdleGroup /\ IdleMeta /\ IdleLayout /\ IdleSlice /\ IdleUpload /\ IdleAuth /\ IdleProfile /\ IdleSubmit /\ IdleManager /\ IdleStorage

NextPayload == BuildMatchReportPayload

SpecPayload == InitPayload /\ [][NextPayload]_vars

-----------------------------------------------------------------------------
(* Claims about buildMatchReportPayload *)

PayloadDone == payload # Pending /\ payload # NoPayload

DistinctLabels(labels) ==
    \A i, j \in 1..Len(labels) : labels[i] = labels[j] => i = j

OutputPlayers ==
    UNION {{payload.teams[t].players[k] : k \in 1..Len(payload.teams[t].players)} :
              t \in 1..Len(payload.teams)}

\* the value the claim puts at stats[columnLabels[i]]
ExpectedStat(source, i) ==
    IF source.columnValues # UndefinedValues /\ i <= Len(source.columnValues)
    THEN source.columnValues[i]
    ELSE <<".">>

\* C10: every output player has exactly the fields number, name and stats,
\* and for pairwise distinct column labels stats[columnLabels[i]] is the
\* player's columnValues[i] when that entry exists and "." when it does not.
C10_PayloadPlayers ==
    PayloadDone =>
        \A out \in OutputPlayers :
            /\ DOMAIN out = {"number", "name", "stats"}
            /\ \E k \in 1..Len(playersData) :
                  /\ playersData[k].number = out.number
                  /\ playersData[k].name = out.name
                  /\ DistinctLabels(payloadColumnLabels) =>
                        /\ DOMAIN out.stats = {payloadColumnLabels[i] : i \in 1..Len(payloadColumnLabels)}
                        /\ \A i \in 1..Len(payloadColumnLabels) :
                              out.stats[payloadColumnLabels[i]] = ExpectedStat(playersData[k], i)

\* a payload built for two distinct labels with a player that has the first
\* value and lacks the second
C10_Witness ==
    /\ PayloadDone
    /\ Len(payloadColumnLabels) = 2 /\ DistinctLabels(payloadColumnLabels)
    /\ \E out \in OutputPlayers :
          /\ out.stats[payloadColumnLabels[1]] = Chars("7")
          /\ out.stats[payloadColumnLabels[2]] = <<".">>

\* the team a player belongs to: its team, "Equipe" when it has none
OwnTeam(player) == IF player.team = NullStr THEN Chars("Equipe") ELSE player.team

\* how many players of a sequence have the given number and name
CountOf(players, number, name) ==
    Cardinality({k \in 1..Len(players) : players[k].number = number /\ players[k].name = name})

\* C11: payload.teams partitions the input players by team: every team name
\* is in exactly one entry, every input player is there exactly once and under
\* its own team, and within each team the numbers ascend.
C11_TeamsPartitionPlayers ==
    PayloadDone =>
        LET teams == payload.teams IN
        /\ \A t, u \in 1..Len(teams) : teams[t].team = teams[u].team => t = u
        /\ \A k \in 1..Len(playersData) :
              \E t \in 1..Len(teams) :
                  /\ teams[t].team = OwnTeam(playersData[k])
                  /\ CountOf(teams[t].players, playersData[k].number, playersData[k].name)
                        = CountOf(playersData, playersData[k].number, playersData[k].name)
                  /\ \A u \in 1..Len(teams) :
                        u # t => CountOf(teams[u].players, playersData[k].number,
                                         playersData[k].name) = 0
        /\ \A t \in 1..Len(teams) :
              /\ Len(teams[t].players) >= 1
              /\ \A k \in 1..Len(teams[t].players) :
                    \E j \in 1..Len(playersData) :
                        /\ playersData[j].number = teams[t].players[k].number
                        /\ playersData[j].name = teams[t].players[k].name
                        /\ OwnTeam(playersData[j]) = teams[t].team
              /\ \A k \in 1..(Len(teams[t].players) - 1) :
                    teams[t].players[k].number <= teams[t].players[k + 1].number

\* a payload for two players of one team given in descending number
C11_Witness ==
    /\ PayloadDone
    /\ Len(playersData) = 2
    /\ playersData[1].team = playersData[2].team
    /\ playersData[1].number > playersData[2].number
    /\ Len(payload.teams) = 1 /\ Len(payload.teams[1].players) = 2

-----------------------------------------------------------------------------
(* Specification of the column layout over bounded documents *)

MaxHeaderSets == 7

\* the words of the header row after the set numbers, one per fixed column,
\* abbreviated
HeaderWords ==
    <<"Vote", "T", "BP", "W", "T", "E", "P", "T", "E", "Pos%", "Ex",
      "T", "E", "Blo", "P", "%", "BK">>

\* the i-th token of a row: 20 apart, 2 wide per character
RowToken(text, i) == [str |-> text, x |-> 20 * i, width |-> 2 * Len(text), height |-> 8]

\* a header row: "Name", the set numbers 1..sets in one token each (or 1 and 2
\* in one token), then the given words
HeaderRow(sets, merged, words) ==
    LET numbers == IF merged /\ sets >= 2
                   THEN <<Chars("1 2")>> \o [i \in 1..(sets - 2) |-> toString(i + 2)]
                   ELSE [i \in 1..sets |-> toString(i)]
        texts == <<Chars("Name")>> \o numbers \o [i \in 1..Len(words) |-> Chars(words[i])]
    IN  [i \in 1..Len(texts) |-> RowToken(texts[i], i)]

\* the words as they are, one short, one more, and with "Votes" for "Vote"
HeaderWordLists ==
    {HeaderWords,
     SubSeq(HeaderWords, 1, Len(HeaderWords) - 1),
     HeaderWords \o <<"P">>,
     <<"Votes">> \o Tail(HeaderWords)}

HeaderRows ==
    {HeaderRow(sets, merged, words) :
        sets \in 0..MaxHeaderSets, merged \in {FALSE}, words \in HeaderWordLists}
    \cup {HeaderRow(3, TRUE, HeaderWords)}

\* a player whose statTokens are n tokens, the second one blank
StatRow(n) ==
    [statTokens |-> [i \in 1..n |->
        [text |-> IF i = 2 THEN <<" ">> ELSE Chars("5"), x |-> 20 * i, width |-> 2, height |-> 8]]]

StatRowLengths == {19, 22, 23}

LayoutDocuments ==
    {[lines |-> ls, players |-> ps] :
        ls \in {<<>>, <<<<RowToken(Chars("TEAM ALPHA"), 1)>>>>}
               \cup {<<<<RowToken(Chars("TEAM ALPHA"), 1)>>, h>> : h \in HeaderRows},
        ps \in {<<>>} \cup {<<StatRow(n)>> : n \in StatRowLengths}
               \cup {<<StatRow(19), StatRow(23)>>, <<StatRow(22), StatRow(22)>>}}

InitLayout ==
    /\ \E doc \in LayoutDocuments : layoutLines = doc.lines /\ layoutPlayers = doc.players
    /\ setColumnCount = DEFAULT_SET_COLUMNS
    /\ inferredAnchors = NullAnchors
    /\ detectedSetCount = 0
    /\ effectiveColumnLabels = <<>>
    /\ layoutPc = "start"
    /\ IdleParse /\ IdleExtract /\ IdleMap /\ IdleGroup /\ IdleMeta /\ IdlePayload /\ IdleSlice /\ IdleUpload /\ IdleAuth /\ IdleProfile /\ IdleSubmit /\ IdleManager /\ IdleStorage

\* the user selects the next document (onFileChange); the locals of the
\* previous parse are gone
SelectDocument ==
    /\ layoutPc \in {"done", "reset"}
    /\ \E doc \in LayoutDocuments : layoutLines' = doc.lines /\ layoutPlayers' = doc.players
    /\ inferredAnchors' = NullAnchors
    /\ detectedSetCount' = 0
    /\ effectiveColumnLabels' = <<>>
    /\ layoutPc' = "start"
    /\ UNCHANGED <<exceptLayout, setColumnCount>>

NextLayout ==
    \/ InferLayout
    \/ ResetSetColumnCount
    \/ SelectDocument

SpecLayout == InitLayout /\ [][NextLayout]_vars

-----------------------------------------------------------------------------
(* Claims about the column layout *)

LayoutDone == layoutPc = "done"

\* the set count clamped to 1..5 as buildTableColumnLabels clamps it
ClampedSets(n) == IF n < 1 THEN 1 ELSE IF n > 5 THEN 5 ELSE n

\* C12 as stated: for every set count N the labels, and the anchors when
\* there are any, have exactly N + 16 entries.
C12_ColumnsAreSetsPlus16 ==
    LayoutDone =>
        /\ Len(effectiveColumnLabels) = setColumnCount + 16
        /\ inferredAnchors # NullAnchors => Len(inferredAnchors) = setColumnCount + 16

\* C12 amended: with N the set count clamped to 1..5 the labels are the N set
\* columns "1".."N" followed by the 17 fixed columns, N + 17 entries, and the
\* anchors, when there are any, are as many as the labels.
C12_ColumnsAreSetsPlus17 ==
    LayoutDone =>
        LET n == ClampedSets(setColumnCount) IN
        /\ Len(effectiveColumnLabels) = n + 17
        /\ \A i \in 1..n : Chars(effectiveColumnLabels[i]) = toString(i)
        /\ effectiveColumnLabels[n + 1] = "Vote"
        /\ effectiveColumnLabels[n + 17] = "BK Pts"
        /\ inferredAnchors # NullAnchors => Len(inferredAnchors) = n + 17

\* anchors taken from a header row of three sets
C12_Witness ==
    /\ LayoutDone
    /\ inferredAnchors # NullAnchors
    /\ detectedSetCount = 3
    /\ Len(layoutLines) = 2
    /\ Len(inferredAnchors) = 20

\* the number of set columns of a list of labels: those before "Vote"
SetColumnsOf(labels) ==
    Cardinality({i \in 1..Len(labels) : \A j \in 1..i : labels[j] # "Vote"})

\* C20: after a parse the detected set count, the set column count stored
\* from it and sent as setColumns, is within 1..5 and is the number of set
\* columns of the labels of the same report, those the values were mapped
\* with and those the payload is built with.
C20_SetCountWithinOneToFive ==
    LayoutDone =>
        /\ detectedSetCount \in 1..MAX_SET_COLUMNS
        /\ setColumnCount = detectedSetCount
        /\ SetColumnsOf(effectiveColumnLabels) = setColumnCount
        /\ SetColumnsOf(buildTableColumnLabels(setColumnCount)) = setColumnCount

\* what a parse of the current document yields in a component that has
\* parsed nothing before: setColumnCount is DEFAULT_SET_COLUMNS (line 753)
FirstParse == inferColumnAnchors(layoutPlayers, layoutLines, DEFAULT_SET_COLUMNS)

\* C22: a parse yields the set count, the column labels and the anchors the
\* column values are mapped with that a first parse of the same document
\* yields, whatever was parsed before.
C22_ParseDependsOnTheDocumentOnly ==
    LayoutDone =>
        \E first \in {FirstParse} :
            /\ detectedSetCount = first.detectedSetCount
            /\ setColumnCount = first.detectedSetCount
            /\ effectiveColumnLabels = buildTableColumnLabels(first.detectedSetCount)
            /\ inferredAnchors = first.anchors

-----------------------------------------------------------------------------
(* Claims about parsePlayerLine *)

\* the claim's own reading of the token shapes
PlainShortNumber(t) == AllDigits(t) /\ Len(t) <= 3
FourDigitNumber(t) == AllDigits(t) /\ Len(t) = 4
ShortNumberShape(t) ==
    LET ds == SelectSeq(t, IsDigit)
        ls == SelectSeq(t, IsAsciiLetter)
    IN  Len(ds) \in 1..3 /\ \A i \in 1..Len(ls) : ls[i] \in {"L", "l"}

\* index of the first stat-shaped token at or after position from; Len + 1 if none
FirstStatFrom(toks, from) ==
    IF \E i \in from..Len(toks) : isStatValue(toks[i])
    THEN CHOOSE i \in from..Len(toks) :
            isStatValue(toks[i]) /\ \A j \in from..(i - 1) : ~isStatValue(toks[j])
    ELSE Len(toks) + 1

ParseDone == parsed # Pending
ParseOk == parsed # Pending /\ parsed # NullRec

\* C4: the name/stat partition is one-way: when the first token is the jersey
\* number, every token from the first stat-shaped token on is a stat token, in
\* order, and every word of the name is a token that precedes it; the line
\* 7 Ana 12 Silva gives name "Ana" and stats 12, Silva.
C4_OneWayPartition ==
    LET toks == FlattenTokens(line)
        f == FirstStatFrom(toks, 2)
        words == splitWhitespace(parsed.name)
    IN  /\ (ParseOk /\ toks # <<>> /\ PlainShortNumber(toks[1])) =>
              /\ parsed.rawStats = SubSeq(toks, f, Len(toks))
              /\ Len(words) <= f - 2
              /\ \A w \in 1..Len(words) : \E i \in 2..(f - 1) : toks[i] = words[w]
        /\ (ParseDone /\ line = <<Chars("7"), Chars("Ana"), Chars("12"), Chars("Silva")>>) =>
              /\ parsed # NullRec
              /\ parsed.name = Chars("Ana")
              /\ parsed.rawStats = <<Chars("12"), Chars("Silva")>>

C4_Witness ==
    /\ ParseOk
    /\ line = <<Chars("7"), Chars("Ana"), Chars("12"), Chars("Silva")>>
    /\ parsed.rawStats = <<Chars("12"), Chars("Silva")>>

\* C5 as stated: every line whose first token is a 4-digit number fails to
\* parse (the result is null), whatever tokens follow it.
C5_FourDigitFirstAlwaysFails ==
    (ParseDone /\ line # <<>> /\ FourDigitNumber(line[1])) => parsed = NullRec

\* C5 amended: a line whose first token is a 4-digit number never takes that
\* token as the jersey number; it fails to parse when neither its second nor
\* its third token is a short number token (1 to 3 digits, letters only L),
\* and otherwise the number comes from the first such token.
C5_FourDigitFirstSkipped ==
    LET toks == FlattenTokens(line)
        window == {i \in 2..3 : i <= Len(toks) /\ ShortNumberShape(toks[i])}
    IN  (ParseDone /\ line # <<>> /\ FourDigitNumber(line[1])) =>
            /\ window = {} => parsed = NullRec
            /\ parsed # NullRec =>
                  \E i \in window :
                      /\ \A j \in window : i <= j
                      /\ parsed.number = toNumber(SelectSeq(toks[i], IsDigit))

C5_Witness ==
    /\ parsed = NullRec
    /\ Len(line) = 3
    /\ line[1] = Chars("1234") /\ line[2] = Chars("Ana") /\ line[3] = Chars("88%")

\* C6: a line 12, L, name tokens, stats parses to number 12 (in general to the
\* value of its first token), its name is made of the tokens after the libero
\* marker and before the first stat, and its stats are the tokens from the
\* first stat on: the libero marker is in neither.
C6_LiberoExcluded ==
    LET toks == FlattenTokens(line)
        f == FirstStatFrom(toks, 3)
    IN  (/\ ParseDone
         /\ Len(toks) >= 3
         /\ PlainShortNumber(toks[1])
         /\ toks[2] = Chars("L")
         /\ \A i \in 1..Len(toks[3]) : IsAsciiLetter(toks[3][i])
         /\ \E i \in 1..Len(toks[3]) : toks[3][i] \notin {"L", "l"}) =>
            /\ parsed # NullRec
            /\ parsed.number = toNumber(toks[1])
            /\ (toks[1] = Chars("12") => parsed.number = 12)
            /\ splitWhitespace(parsed.name) = SelectSeq(SubSeq(toks, 3, f - 1), HasNameChars)
            /\ parsed.rawStats = SubSeq(toks, f, Len(toks))

C6_Witness ==
    /\ ParseOk
    /\ line = <<Chars("12"), Chars("L"), Chars("Ana"), Chars("88%")>>
    /\ parsed.number = 12
    /\ parsed.name = Chars("Ana")

-----------------------------------------------------------------------------
(* Claims about extractPlayers *)

ExtractDone == extracted # Pending

\* the 0-based indexes of the lines that contain "players total"
TotalsIndexes == {i \in 0..(Len(lines) - 1) : lineFacts[lines[i + 1]].playersTotal}

\* the index of the second of them
SecondTotalIndex ==
    CHOOSE i \in TotalsIndexes : Cardinality({j \in TotalsIndexes : j < i}) = 1

\* C2: with two "players total" lines and players emitted before the second,
\* the scan stops at the second one: every emitted player comes from a line
\* before it, and the returned lastPlayerLineIndex is the index of the last
\* emitted player line, not the index of the second "players total" line.
C2_StopsAtSecondTotal ==
    (/\ ExtractDone
     /\ Cardinality(TotalsIndexes) >= 2
     /\ \E k \in 1..Len(emittedAt) : emittedAt[k] < SecondTotalIndex) =>
        /\ index = SecondTotalIndex
        /\ Len(extracted.players) = Len(emittedAt)
        /\ \A k \in 1..Len(emittedAt) : emittedAt[k] < SecondTotalIndex
        /\ extracted.lastPlayerLineIndex = emittedAt[Len(emittedAt)]
        /\ extracted.lastPlayerLineIndex # SecondTotalIndex
        /\ extracted.players[Len(extracted.players)].lineText =
              getLineText(lines[extracted.lastPlayerLineIndex + 1])

C2_Witness ==
    /\ ExtractDone
    /\ lines = <<PlayersTotalLine, TeamAlpha, AnaLine, PlayersTotalLine>>
    /\ extracted.lastPlayerLineIndex = 2
    /\ Len(extracted.players) = 1

\* number and name of each player of each team, as the payload lists them
TeamsOf(players) ==
    LET teams == groupPlayersByTeam(players) IN
    [t \in 1..Len(teams) |->
        [team |-> teams[t].team,
         players |-> [k \in 1..Len(teams[t].players) |->
                        [number |-> teams[t].players[k].number,
                         name |-> teams[t].players[k].name]]]]

\* C3: the end-to-end scenario yields TEAM ALPHA with player 7 "Ana Silva"
\* and then TEAM BETA with player 9 "Ines Costa"; and a parseable player line
\* right after a team header line is emitted as a player of that team.
C3_EndToEndScenario ==
    /\ (ExtractDone /\ lines = ScenarioLines) =>
          TeamsOf(extracted.players) =
             <<[team |-> Chars("TEAM ALPHA"),
                players |-> <<[number |-> 7, name |-> Chars("Ana Silva")]>>],
               [team |-> Chars("TEAM BETA"),
                players |-> <<[number |-> 9, name |-> Chars("Ines Costa")]>>]>>
    /\ \A i \in 1..(index - 1) :
          (lines[i] \in {TeamAlpha, TeamBeta} /\ lineFacts[lines[i + 1]].possiblePlayer # NullRec) =>
             \E k \in 1..Len(emittedAt) :
                 emittedAt[k] = i /\ playersFound[k].team = getLineText(lines[i])

\* the line at 0-based index i begins with a section-terminator pattern
TerminatorAt(i) ==
    /\ lineFacts[lines[i + 1]].text # <<>>
    /\ ~lineFacts[lines[i + 1]].playersTotal
    /\ lineFacts[lines[i + 1]].sectionTerminator

\* the line at 0-based index i is detected as a team header
HeaderAt(i) ==
    /\ lineFacts[lines[i + 1]].text # <<>>
    /\ ~lineFacts[lines[i + 1]].playersTotal
    /\ lineFacts[lines[i + 1]].teamHeader \notin {NullStr, <<>>}

\* C18: once the loop has passed a line that begins with "Points won",
\* "Head Coach", "Assistant" or "Set <n>", currentTeam is null, and no player
\* is emitted from a later line unless a line in between, after the
\* terminator line, is detected as a team header.
C18_TerminatorEndsTheTeam ==
    /\ (extracted = Pending /\ index >= 1 /\ TerminatorAt(index - 1)) => currentTeam = NullStr
    /\ \A k \in 1..Len(emittedAt) :
          \A t \in 0..(emittedAt[k] - 1) :
              TerminatorAt(t) => \E h \in (t + 1)..(emittedAt[k] - 1) : HeaderAt(h)

\* the line at 0-based index i resets currentTeam to null
ResetAt(i) ==
    \/ lineFacts[lines[i + 1]].playersTotal
    \/ TerminatorAt(i) /\ ~HeaderAt(i)

\* the 0-based index of the first line that contains "players total"
FirstTotalIndex == CHOOSE i \in TotalsIndexes : \A j \in TotalsIndexes : i <= j

\* C19: every emitted record comes from a line that follows a detected team
\* header with no line resetting currentTeam in between, and carries the name
\* of that header, the latest one before it; right after the first "players
\* total" line currentTeam is null and the scan goes on: it ends past that
\* line, at the end of the lines when there is no second one.
C19_EmittedUnderLatestHeader ==
    /\ Len(playersFound) = Len(emittedAt)
    /\ \A k \in 1..Len(emittedAt) :
          /\ playersFound[k].team # NullStr
          /\ \E h \in 0..(emittedAt[k] - 1) :
                /\ HeaderAt(h)
                /\ \A j \in (h + 1)..(emittedAt[k] - 1) : ~HeaderAt(j) /\ ~ResetAt(j)
                /\ playersFound[k].team = lineFacts[lines[h + 1]].teamHeader
    /\ (TotalsIndexes # {} /\ extracted = Pending /\ index = FirstTotalIndex + 1) =>
          currentTeam = NullStr /\ playersTotalCount = 1
    /\ (TotalsIndexes # {} /\ ExtractDone) => index > FirstTotalIndex
    /\ (Cardinality(TotalsIndexes) = 1 /\ ExtractDone) => index = Len(lines)

C19_Witness ==
    /\ ExtractDone
    /\ lines = <<TeamAlpha, PlayersTotalLine, TeamAlpha, AnaLine>>
    /\ emittedAt = <<3>>
    /\ extracted.players[1].team = Chars("TEAM ALPHA")

-----------------------------------------------------------------------------
(* Specification of sliceFileIntoParts over bounded files and chunk sizes *)

MaxFileSize == 9
MaxChunkSize == 4

SliceFiles == {NullRec} \cup {[size |-> s] : s \in 0..MaxFileSize}

InitSlice ==
    /\ sliceFile \in SliceFiles
    /\ sliceChunkSizeBytes \in 0..MaxChunkSize
    /\ sliceOffset = 0 /\ slicePartNumber = 1 /\ sliceParts = <<>> /\ slicePc = "start"
    /\ IdleParse /\ IdleExtract /\ IdleMap /\ IdleGroup /\ IdleMeta /\ IdlePayload /\ IdleLayout /\ IdleUpload /\ IdleAuth /\ IdleProfile /\ IdleSubmit /\ IdleManager /\ IdleStorage

\* the next call, with other arguments
SliceAgain ==
    /\ slicePc = "done"
    /\ sliceFile' \in SliceFiles
    /\ sliceChunkSizeBytes' \in 0..MaxChunkSize
    /\ slicePc' = "start"
    /\ UNCHANGED <<exceptSlice, sliceOffset, slicePartNumber, sliceParts>>

NextSlice == SliceGuard \/ SlicePush \/ SliceReturn \/ SliceAgain

SpecSlice == InitSlice /\ [][NextSlice]_vars

-----------------------------------------------------------------------------
(* Claims about sliceFileIntoParts *)

CeilDiv(a, b) == (a + b - 1) \div b

SlicesAFile == sliceFile # NullRec /\ sliceChunkSizeBytes > 0

\* the parts that contain byte b of the file
PartsHolding(b) == {k \in 1..Len(sliceParts) : sliceParts[k].chunk.from <= b /\ b < sliceParts[k].chunk.to}

\* C14: for a file of size S and a positive chunk size C the loop pushes at
\* most ceil(S / C) parts (so it ends) and returns exactly ceil(S / C) parts
\* numbered 1..n, part k holding the bytes [(k-1)*C, min(k*C, S)), so that
\* every byte of the file is in exactly one part; a missing file or a chunk
\* size of 0 gives the empty list.
C14_SlicesCoverTheFile ==
    /\ (slicePc = "loop" /\ SlicesAFile) =>
          /\ Len(sliceParts) <= CeilDiv(sliceFile.size, sliceChunkSizeBytes)
          /\ sliceOffset = Len(sliceParts) * sliceChunkSizeBytes
    /\ (slicePc = "done" /\ SlicesAFile) =>
          /\ Len(sliceParts) = CeilDiv(sliceFile.size, sliceChunkSizeBytes)
          /\ \A k \in 1..Len(sliceParts) :
                /\ sliceParts[k].partNumber = k
                /\ sliceParts[k].chunk =
                      [from |-> (k - 1) * sliceChunkSizeBytes,
                       to |-> Min(k * sliceChunkSizeBytes, sliceFile.size)]
          /\ \A b \in 0..(sliceFile.size - 1) : Cardinality(PartsHolding(b)) = 1
    /\ (slicePc = "done" /\ ~SlicesAFile) => sliceParts = <<>>

\* a file whose last part is shorter than the chunk size has been sliced
C14_Witness ==
    /\ slicePc = "done" /\ SlicesAFile
    /\ sliceFile.size % sliceChunkSizeBytes # 0
    /\ Len(sliceParts) >= 3

-----------------------------------------------------------------------------
(* Specification of uploadPartsSequentially over bounded files and urls *)

MaxUrls == 2

UploadFiles == {NullRec, [size |-> 0], [size |-> 3]}

\* url n stands for the pre-signed URL of part n
UrlOf(partNumber) == [partNumber |-> partNumber, url |-> partNumber]

UrlLists ==
    {[k \in 1..n |-> UrlOf(k)] : n \in 0..MaxUrls} \cup {<<UrlOf(2), UrlOf(1)>>}

StartOfCall ==
    /\ signalAborted = FALSE
    /\ urlIndex = 1 /\ attempt = 0 /\ uploadedBytes = 0 /\ completedParts = <<>>
    /\ partUploaded = 0 /\ requests = <<>> /\ progress = <<>> /\ uploadError = NullStr
    /\ uploadPc = "call"

InitUpload ==
    /\ uploadFile \in UploadFiles
    /\ urls \in UrlLists
    /\ uploadChunkSizeBytes = 2
    /\ retries \in 0..DEFAULT_RETRIES
    /\ canUseXHR \in BOOLEAN
    /\ StartOfCall
    /\ IdleParse /\ IdleExtract /\ IdleMap /\ IdleGroup /\ IdleMeta /\ IdlePayload /\ IdleLayout /\ IdleSlice /\ IdleAuth /\ IdleProfile /\ IdleSubmit /\ IdleManager /\ IdleStorage

NextUpload ==
    \/ UploadCall
    \/ SendRequest
    \/ XHRProgress
    \/ RequestSucceeds
    \/ RequestFails
    \/ FetchAborts
    \/ Abort
    \/ RetryAfterSleep

SpecUpload == InitUpload /\ [][NextUpload]_vars

-----------------------------------------------------------------------------
(* Claims about uploadPartsSequentially *)

AllSucceededAtOnce ==
    /\ uploadPc = "resolved"
    /\ \A r \in 1..Len(requests) : requests[r].outcome = "ok"

OneRequestPerUrl ==
    /\ Len(requests) = Len(urls)
    /\ \A k \in 1..Len(urls) : requests[k].url = urls[k].url

\* C13 as stated: when every part upload succeeds on its first attempt, the
\* call resolves to one record {partNumber, ETag, bytes} per entry of urls, in
\* the order of urls, the ETag being the ETag of the response of that part's
\* URL, and one request is sent per part.
C13_ETagIsTheResponseHeader ==
    AllSucceededAtOnce =>
       /\ OneRequestPerUrl
       /\ completedParts =
             [k \in 1..Len(urls) |->
                [partNumber |-> urls[k].partNumber,
                 ETag |-> requests[k].header,
                 bytes |-> ChunkSize(requests[k].chunk)]]

\* C13, amended: the ETag of a record is the ETag header of the response with
\* its double quotes removed, and "part-<partNumber>" when the response has
\* no ETag header.
C13_ETagIsTheHeaderUnquoted ==
    AllSucceededAtOnce =>
       /\ OneRequestPerUrl
       /\ completedParts =
             [k \in 1..Len(urls) |->
                [partNumber |-> urls[k].partNumber,
                 ETag |-> IF requests[k].header = NullStr
                          THEN Chars("part-") \o toString(urls[k].partNumber)
                          ELSE SelectSeq(requests[k].header, NotQuote),
                 bytes |-> ChunkSize(requests[k].chunk)]]

\* two parts uploaded at the first attempt, the ETag of one of them quoted
C13_Witness ==
    /\ AllSucceededAtOnce
    /\ Len(urls) = 2
    /\ \E k \in 1..2 : requests[k].header = <<"\"", "e", "2", "\"">>
    /\ \E k \in 1..2 : requests[k].header = Chars("e1")

\* the requests sent for the part of urls[k], in the order they were sent
RequestsOf(k) == {r \in 1..Len(requests) : requests[r].partNumber = urls[k].partNumber}

FailedRequestsOf(k) == {r \in RequestsOf(k) : requests[r].outcome \in {"not ok", "error"}}

\* C24: no part is requested more than retries + 1 times (3 with the
\* default); a part whose retries + 1 requests all failed with an error that
\* is not an abort has made the call reject with "Upload failed for part
\* <partNumber>"; and no request follows a successful request for the same
\* part.
C24_AtMostRetriesPlusOneAttempts ==
    /\ attempt <= retries + 1
    /\ retries = DEFAULT_RETRIES => attempt <= 3
    /\ \A k \in 1..Len(urls) :
          /\ Cardinality(RequestsOf(k)) <= retries + 1
          /\ Cardinality(FailedRequestsOf(k)) = retries + 1 =>
                /\ uploadPc = "rejected"
                /\ uploadError = Chars("Upload failed for part ") \o toString(urls[k].partNumber)
          /\ \A r \in RequestsOf(k) :
                requests[r].outcome = "ok" => \A q \in RequestsOf(k) : q <= r

\* the second part failed three times after the first was uploaded at its
\* second attempt
C24_Witness ==
    /\ uploadPc = "rejected"
    /\ retries = DEFAULT_RETRIES
    /\ Len(urls) = 2
    /\ Len(requests) = 5
    /\ requests[1].outcome = "error" /\ requests[2].outcome = "ok"
    /\ Cardinality(FailedRequestsOf(2)) = 3
    /\ uploadError = Chars("Upload failed for part 2")

\* the index in urls of the entry a request was sent for
EntryOf(r) == CHOOSE k \in 1..Len(urls) : urls[k].partNumber = requests[r].partNumber

LastRequestOf(k) == CHOOSE r \in RequestsOf(k) : \A q \in RequestsOf(k) : q <= r

\* C25: only the latest request can be in flight; when a request was sent,
\* every earlier entry of urls had a successful request before it; a request
\* that ended with an AbortError is the last request of the call, which
\* rejected; and after the request with which a part exhausted its retries
\* no request was sent, for that part or a later one.
C25_SequentialAndFailStop ==
    /\ \A r \in 1..Len(requests) :
          /\ requests[r].outcome = "pending" => r = Len(requests) /\ uploadPc = "inflight"
          /\ \A j \in 1..(EntryOf(r) - 1) :
                \E q \in 1..(r - 1) : EntryOf(q) = j /\ requests[q].outcome = "ok"
          /\ requests[r].outcome = "abort" =>
                /\ r = Len(requests)
                /\ uploadPc = "rejected"
                /\ uploadError = Chars("Upload aborted")
    /\ \A k \in 1..Len(urls) :
          Cardinality(FailedRequestsOf(k)) = retries + 1 =>
             /\ LastRequestOf(k) = Len(requests)
             /\ uploadPc = "rejected"
    /\ uploadPc \in {"rejected", "resolved", "sleep", "attempt"} =>
          \A r \in 1..Len(requests) : requests[r].outcome # "pending"

\* the first part was uploaded at its second attempt and the request of the
\* second part was aborted
C25_Witness ==
    /\ uploadPc = "rejected"
    /\ urls = <<UrlOf(2), UrlOf(1)>>
    /\ Len(requests) = 3
    /\ requests[1].outcome = "not ok" /\ requests[2].outcome = "ok" /\ requests[3].outcome = "abort"
    /\ requests[3].partNumber = 1

\* uploadedBytes of the progress event before the i-th (0 before the first)
BytesBefore(i) == IF i = 1 THEN 0 ELSE progress[i - 1].uploadedBytes

\* the bytes the first n progress events counted for part partNumber
RECURSIVE CountedFor(_, _)
CountedFor(partNumber, n) ==
    IF n = 0 THEN 0
    ELSE CountedFor(partNumber, n - 1)
         + (IF progress[n].partNumber = partNumber
            THEN progress[n].uploadedBytes - BytesBefore(n) ELSE 0)

\* C26: the uploadedBytes passed to onProgress never decrease and never
\* exceed the file size, percent is within 0..100, and for every part the
\* bytes counted for it over the whole call are at most the bytes of its
\* chunk.
C26_ProgressCountsEachByteOnce ==
    uploadFile # NullRec =>
    /\ \A i \in 1..Len(progress) :
          /\ progress[i].uploadedBytes >= BytesBefore(i)
          /\ progress[i].uploadedBytes <= uploadFile.size
          /\ progress[i].percent \in 0..100
    /\ \A k \in 1..Len(urls) :
          CountedFor(urls[k].partNumber, Len(progress)) <= ChunkSize(ChunkOf(urls[k].partNumber))

-----------------------------------------------------------------------------
(* Specification of AuthProvider over bounded responses *)

\* the provider mounts: the state is read from localStorage and the profile
\* effect runs
InitAuth ==
    /\ \E stored \in {[token |-> NullStr, user |-> NullRec],
                      [token |-> Chars("t1"), user |-> NullRec],
                      [token |-> Chars("t1"), user |-> normalizeUserProfile(BareUser(Chars("1")))]} :
          /\ storedToken = stored.token
          /\ storedUser = stored.user
          /\ accessToken = stored.token
          /\ user = normalizeUserProfile(stored.user)
          /\ loading = Truthy(stored.token)
          /\ meCalls = EffectCalls({}, NullStr, stored.token)
    /\ storedHeaders = NullRec
    /\ headerOverrides = NoOverrides
    /\ authCalls = 0
    /\ lastAuth = [op |-> "mount"]
    /\ IdleParse /\ IdleExtract /\ IdleMap /\ IdleGroup /\ IdleMeta /\ IdlePayload /\ IdleLayout /\ IdleSlice /\ IdleUpload /\ IdleProfile /\ IdleSubmit /\ IdleManager /\ IdleStorage

NextAuth ==
    \/ CallAuth
    \/ AuthResolves
    \/ AuthRejects
    \/ Logout
    \/ RefreshProfile
    \/ MeResolves
    \/ MeRejects

SpecAuth == InitAuth /\ [][NextAuth]_vars

-----------------------------------------------------------------------------
(* Claims about AuthProvider *)

isAuthenticated == Truthy(accessToken)

\* the latest operation was a login that resolved with a user and a token
LoggedIn ==
    /\ lastAuth.op = "login"
    /\ lastAuth.response # NullRec
    /\ lastAuth.response.user # NullRec
    /\ Truthy(lastAuth.response.accessToken)

LoggedOut ==
    lastAuth.op = "logout" => user = NullRec /\ accessToken = NullStr /\ storedToken = NullStr

TokenStoredAsHeld ==
    /\ storedToken = accessToken
    /\ isAuthenticated <=> storedToken # NullStr

\* C15 as stated: after login resolves with {user, accessToken} the context
\* holds that user and localStorage holds the token; after logout the user and
\* the token are null and the stored token is removed; at all times the
\* stored token is the token in memory and isAuthenticated is true exactly
\* when there is one.
C15_ContextHoldsTheResponseUser ==
    /\ LoggedIn => user = lastAuth.response.user /\ storedToken = lastAuth.response.accessToken
    /\ LoggedOut
    /\ TokenStoredAsHeld

\* C15, amended: the context holds the normalized profile of the response's
\* user: id and email as sent, actualTeam and currentTeam both the user's
\* actualTeam (its currentTeam when it has none), the country fields derived
\* from the user's country.
C15_ContextHoldsTheNormalizedUser ==
    /\ LoggedIn =>
          LET sentUser == lastAuth.response.user IN
          /\ user.id = sentUser.id
          /\ user.email = sentUser.email
          /\ user.actualTeam = Coalesce(sentUser.actualTeam, sentUser.currentTeam)
          /\ user.currentTeam = user.actualTeam
          /\ user.country = normalizeUserProfile(sentUser).country
          /\ user.currentTeamCountryCode = normalizeUserProfile(sentUser).currentTeamCountryCode
          /\ user.currentTeamCountry = normalizeUserProfile(sentUser).currentTeamCountry
          /\ storedToken = lastAuth.response.accessToken
          /\ accessToken = lastAuth.response.accessToken
    /\ LoggedOut
    /\ TokenStoredAsHeld

\* a login that replaced the session of another token, with a user whose
\* team and country the provider rewrites
C15_Witness ==
    /\ LoggedIn
    /\ lastAuth.response.user.currentTeam = Chars("X")
    /\ user.currentTeam = Chars("Y")
    /\ user.currentTeamCountry = countries[1]
    /\ accessToken = Chars("t2")
    /\ \E call \in meCalls : call.token = Chars("t1") /\ ~call.active

\* an api.auth.me call of a profile effect that was cleaned up ends in this step
StaleProfileRequestEnds ==
    \E call \in meCalls : call.origin = "effect" /\ ~call.active /\ call \notin meCalls'

\* C28: the step in which the profile request of a cleaned-up effect ends,
\* with a profile or with a failure, leaves the user, the access token and
\* the stored token and user as they are.
C28_StaleProfileRequestIsIgnored ==
    [][StaleProfileRequestEnds => UNCHANGED <<user, accessToken, storedToken, storedUser>>]_vars

-----------------------------------------------------------------------------
(* Specification of buildProfileUpdatePayload over bounded drafts *)

brazil == [code |-> Chars("BR"), name |-> Chars("Brazil")]
usa == [code |-> Chars("US"), name |-> Chars("United States")]

TeamCountries ==
    {NullRec, brazil, usa, Text(Chars(" Brazil ")), [code |-> Chars("US"), name |-> NullStr]}

baseUser ==
    [currentTeam |-> Chars("Volley Stars"), currentTeamCountry |-> brazil,
     playerNumber |-> Chars("07")]

ProfileDraftUsers ==
    {NullRec, baseUser,
     [baseUser EXCEPT !.currentTeamCountry = NullRec, !.playerNumber = NullStr]}

TeamDrafts == {<<>>, Chars("Volley Stars"), Chars(" Volley Stars "), Chars("Aces")}

PlayerNumberDrafts == {<<>>, Chars("07"), Chars("12"), Chars("1a2b3c4")}

InitProfile ==
    /\ currentUser \in ProfileDraftUsers
    /\ teamDraft \in TeamDrafts
    /\ teamCountryDraft \in TeamCountries
    /\ playerNumberDraft \in PlayerNumberDrafts
    /\ profilePlan = Pending
    /\ IdleParse /\ IdleExtract /\ IdleMap /\ IdleGroup /\ IdleMeta /\ IdlePayload /\ IdleLayout /\ IdleSlice /\ IdleUpload /\ IdleAuth /\ IdleSubmit /\ IdleManager /\ IdleStorage

\* the user edits a draft
EditDraft ==
    /\ profilePlan # Pending
    /\ teamDraft' \in TeamDrafts
    /\ teamCountryDraft' \in TeamCountries
    /\ playerNumberDraft' \in PlayerNumberDrafts
    /\ profilePlan' = Pending
    /\ UNCHANGED <<exceptProfile, currentUser>>

NextProfile == BuildProfileUpdatePayload \/ EditDraft

SpecProfile == InitProfile /\ [][NextProfile]_vars

-----------------------------------------------------------------------------
(* Claims about buildProfileUpdatePayload *)

CurrentTeamCountry == IF currentUser = NullRec THEN NullRec ELSE currentUser.currentTeamCountry

\* C16: when the team country draft, a country object, differs from the
\* user's current team country, hasChanges is true and the payload carries
\* country and currentTeamCountryCode equal to the draft's code and
\* currentTeamCountry equal to the draft object.
C16_SendsTheCountryObject ==
    (/\ profilePlan # Pending
     /\ teamCountryDraft \in {brazil, usa}
     /\ teamCountryDraft # CurrentTeamCountry) =>
       /\ profilePlan.hasChanges
       /\ {"country", "currentTeamCountryCode", "currentTeamCountry"} \subseteq DOMAIN profilePlan.payload
       /\ profilePlan.payload["country"] = Text(teamCountryDraft.code)
       /\ profilePlan.payload["currentTeamCountryCode"] = Text(teamCountryDraft.code)
       /\ profilePlan.payload["currentTeamCountry"] = teamCountryDraft

-----------------------------------------------------------------------------
(* The match report view: parsing a document and submitting the report *)

\* what parsePDF may leave in the state for a document
ParsedReports ==
    {[players |-> <<>>, setColumnCount |-> DEFAULT_SET_COLUMNS, matchDate |-> <<>>, matchTime |-> <<>>],
     [players |-> <<Player(12, "Bia", Chars("TEAM ALPHA"), <<Chars("5"), Chars("3")>>),
                    Player(3, "Carla", Chars("TEAM BETA"), <<>>)>>,
      setColumnCount |-> 3, matchDate |-> Chars("2024-03-15"), matchTime |-> Chars("19:30")]}

\* what the user types into the date and time inputs
DateInputs == {Chars("2024-03-16")}
TimeInputs == {Chars("08:00")}

\* new Date().toISOString() when the n-th report is built
SubmitClock(n) == Chars("2024-03-15T19:30:0") \o toString(n) \o Chars(".000Z")

\* what api.stats.submitMatchReport may reject with
SubmissionErrors ==
    {[api |-> TRUE, status |-> 409, message |-> Chars("Conflict"), errors |-> NullRec],
     [api |-> TRUE, status |-> 422, message |-> Chars("Invalid"),
      errors |-> [list |-> <<Chars("date"), <<>>, Chars("time")>>]],
     [api |-> FALSE, status |-> 0, message |-> <<>>, errors |-> NullRec]}

\* formatValidationErrors(errors): errors absent, a string [text |-> s] or an
\* array [list |-> l]
formatValidationErrors(errors) ==
    IF errors = NullRec THEN <<>>
    ELSE IF "text" \in DOMAIN errors THEN errors.text
    ELSE join(SelectSeq(errors.list, NonEmpty), Chars(", "))

MaxSubmits == 2
MaxSelections == 2

ConflictMessage == Chars("Ja existe um relatorio para essa data com os mesmos times.")

\* submissionError?.message || "Falha ao enviar os dados."
BaseMessage(submissionError) ==
    IF submissionError.message = <<>> THEN Chars("Falha ao enviar os dados.")
    ELSE submissionError.message

\* the message setSubmitError is given in the catch block
CombinedMessage(submissionError) ==
    IF submissionError.api /\ submissionError.status = 409 THEN ConflictMessage
    ELSE LET validationDetails == formatValidationErrors(submissionError.errors) IN
         IF validationDetails # <<>>
         THEN BaseMessage(submissionError) \o Chars(" (") \o validationDetails \o Chars(")")
         ELSE BaseMessage(submissionError)

\* resetViewToInitialState()
ResetView ==
    /\ tablePlayers' = <<>>
    /\ setColumnCount' = DEFAULT_SET_COLUMNS
    /\ matchDate' = <<>>
    /\ matchTime' = <<>>
    /\ isUploadVisible' = TRUE
    /\ parseLoading' = FALSE
    /\ parseError' = NullStr
    /\ submitError' = NullStr
    /\ submitSuccess' = NullStr
    /\ shownSelection' = 0

\* the user did something to the view after the latest report was sent
Touch ==
    IF sent = <<>> THEN sent ELSE [sent EXCEPT ![Len(sent)].touched = TRUE]

\* the latest report ends with outcome
Settle(outcome) == [sent EXCEPT ![Len(sent)].outcome = outcome]

\* onFileChange up to the first await of parsePDF; the file input is shown
\* while isUploadVisible (lines 989-1018)
ParseStart ==
    /\ isUploadVisible
    /\ selections < MaxSelections
    /\ selections' = selections + 1
    /\ parseInFlight' = parseInFlight \cup {selections + 1}
    /\ shownSelection' = 0
    /\ parseLoading' = TRUE
    /\ parseError' = NullStr
    /\ submitError' = NullStr
    /\ submitSuccess' = NullStr
    /\ tablePlayers' = <<>>
    /\ sent' = Touch
    /\ UNCHANGED <<exceptSubmit, setColumnCount, matchDate, matchTime, isUploadVisible,
                   isSubmitting, toast>>

\* the rest of parsePDF, and of onFileChange, for a document that was read
ParseFinish ==
    /\ \E call \in parseInFlight :
          /\ parseInFlight' = parseInFlight \ {call}
          /\ shownSelection' = call
    /\ \E report \in ParsedReports :
          /\ matchDate' = report.matchDate
          /\ matchTime' = report.matchTime
          /\ setColumnCount' = report.setColumnCount
          /\ tablePlayers' = report.players
          /\ parseError' = IF report.players = <<>>
                           THEN Chars("No player could be found on this PDF.")
                           ELSE NullStr
    /\ parseLoading' = FALSE
    /\ isUploadVisible' = FALSE
    /\ sent' = Touch
    /\ UNCHANGED <<exceptSubmit, isSubmitting, submitError, submitSuccess, toast, selections>>

\* the catch block of parsePDF
ParseFails ==
    /\ \E call \in parseInFlight : parseInFlight' = parseInFlight \ {call}
    /\ parseError' = Chars("Upload failed.")
    /\ parseLoading' = FALSE
    /\ UNCHANGED <<exceptSubmit, setColumnCount, matchDate, matchTime, tablePlayers,
                   isUploadVisible, isSubmitting, submitError, submitSuccess, toast, sent,
                   selections, shownSelection>>

\* the date and time inputs, shown while there are players
SetMatchDate ==
    /\ tablePlayers # <<>>
    /\ \E value \in DateInputs : matchDate' = value /\ matchDate' # matchDate
    /\ sent' = Touch
    /\ UNCHANGED <<exceptSubmit, setColumnCount, matchTime, tablePlayers, parseLoading,
                   parseError, isUploadVisible, isSubmitting, submitError, submitSuccess, toast,
                   parseInFlight, selections, shownSelection>>

SetMatchTime ==
    /\ tablePlayers # <<>>
    /\ \E value \in TimeInputs : matchTime' = value /\ matchTime' # matchTime
    /\ sent' = Touch
    /\ UNCHANGED <<exceptSubmit, setColumnCount, matchDate, tablePlayers, parseLoading,
                   parseError, isUploadVisible, isSubmitting, submitError, submitSuccess, toast,
                   parseInFlight, selections, shownSelection>>

handleShowUploadInput ==
    /\ ~isUploadVisible
    /\ isUploadVisible' = TRUE
    /\ UNCHANGED <<exceptSubmit, setColumnCount, matchDate, matchTime, tablePlayers, parseLoading,
                   parseError, isSubmitting, submitError, submitSuccess, toast, parseInFlight,
                   selections, shownSelection, sent>>

handleCloseUploadInput ==
    /\ ~isUploadVisible
    /\ ResetView
    /\ sent' = Touch
    /\ UNCHANGED <<exceptSubmit, isSubmitting, toast, parseInFlight, selections>>

\* the Save Match Report button, shown while there are players and enabled
\* while no report is being submitted: sendTableDataToBackend() up to its await
SendTableDataToBackend ==
    /\ tablePlayers # <<>>
    /\ ~isSubmitting
    /\ Len(sent) < MaxSubmits
    /\ isSubmitting' = TRUE
    /\ submitError' = NullStr
    /\ submitSuccess' = NullStr
    /\ \E now \in {SubmitClock(Len(sent) + 1)} :
          sent' = Append(sent,
                         [payload |-> buildMatchReportPayload(
                                         tablePlayers, buildTableColumnLabels(setColumnCount),
                                         setColumnCount, matchDate, matchTime, now),
                          players |-> tablePlayers,
                          setColumnCount |-> setColumnCount,
                          matchDate |-> matchDate,
                          matchTime |-> matchTime,
                          outcome |-> "pending",
                          touched |-> FALSE])
    /\ UNCHANGED <<exceptSubmit, setColumnCount, matchDate, matchTime, tablePlayers, parseLoading,
                   parseError, isUploadVisible, toast, parseInFlight, selections, shownSelection>>

\* api.stats.submitMatchReport resolves
SubmitResolves ==
    /\ isSubmitting
    /\ \E matchId \in {NullStr, Chars("42")} :
          toast' = [message |-> IF matchId = NullStr THEN Chars("Match salvo.")
                                ELSE Chars("Match salvo (#") \o matchId \o Chars(")"),
                    tone |-> "success"]
    /\ ResetView
    /\ isSubmitting' = FALSE
    /\ sent' = Settle("resolved")
    /\ UNCHANGED <<exceptSubmit, parseInFlight, selections>>

SubmitRejectsAndResets ==
    /\ isSubmitting
    /\ \E submissionError \in SubmissionErrors :
          toast' = [message |-> BaseMessage(submissionError), tone |-> "error"]
    /\ ResetView
    /\ isSubmitting' = FALSE
    /\ sent' = Settle("rejected")
    /\ UNCHANGED <<exceptSubmit, parseInFlight, selections>>

\* api.stats.submitMatchReport rejects: the catch and finally blocks
SubmitRejects ==
    /\ isSubmitting
    /\ \E submissionError \in SubmissionErrors :
          /\ submitError' = CombinedMessage(submissionError)
          /\ toast' = [message |-> IF submissionError.api /\ submissionError.status = 409
                                   THEN ConflictMessage ELSE BaseMessage(submissionError),
                       tone |-> "error"]
    /\ submitSuccess' = NullStr
    /\ isSubmitting' = FALSE
    /\ sent' = Settle("rejected")
    /\ UNCHANGED <<exceptSubmit, setColumnCount, matchDate, matchTime, tablePlayers, parseLoading,
                   parseError, isUploadVisible, parseInFlight, selections, shownSelection>>

-----------------------------------------------------------------------------
(* Specification of the match report view over bounded reports *)

InitSubmit ==
    /\ IdleSubmit
    /\ IdleParse /\ IdleExtract /\ IdleMap /\ IdleGroup /\ IdleMeta /\ IdlePayload /\ IdleLayout /\ IdleSlice /\ IdleUpload /\ IdleAuth /\ IdleProfile /\ IdleManager /\ IdleStorage

NextSubmit ==
    \/ ParseStart
    \/ ParseFinish
    \/ ParseFails
    \/ SetMatchDate
    \/ SetMatchTime
    \/ handleShowUploadInput
    \/ handleCloseUploadInput
    \/ SendTableDataToBackend
    \/ SubmitResolves
    \/ SubmitRejects

SpecSubmit == InitSubmit /\ [][NextSubmit]_vars

-----------------------------------------------------------------------------
(* Claims about sendTableDataToBackend *)

\* the parsed state a report is built from
ParsedState ==
    [players |-> tablePlayers, setColumnCount |-> setColumnCount,
     matchDate |-> matchDate, matchTime |-> matchTime]

StateSentWith(report) ==
    [players |-> report.players, setColumnCount |-> report.setColumnCount,
     matchDate |-> report.matchDate, matchTime |-> report.matchTime]

SameReport(p, q) ==
    /\ p.teams = q.teams
    /\ p.columnLabels = q.columnLabels
    /\ p.setColumns = q.setColumns
    /\ p.matchDate = q.matchDate
    /\ p.matchTime = q.matchTime

RejectedUntouched(k) == sent[k].outcome = "rejected" /\ ~sent[k].touched

ViewIsReset ==
    /\ tablePlayers = <<>> /\ setColumnCount = DEFAULT_SET_COLUMNS
    /\ matchDate = <<>> /\ matchTime = <<>> /\ isUploadVisible

AfterSubmit ==
    /\ \A k \in 1..Len(sent) :
          RejectedUntouched(k) =>
             IF k = Len(sent)
             THEN /\ ParsedState = StateSentWith(sent[k])
                  /\ tablePlayers # <<>>
                  /\ submitError # NullStr
                  /\ ~isSubmitting
             ELSE SameReport(sent[k + 1].payload, sent[k].payload)
    /\ (sent # <<>> /\ sent[Len(sent)].outcome = "resolved" /\ ~sent[Len(sent)].touched) =>
          ViewIsReset /\ ~isSubmitting

\* the step in which the submit call is rejected
RejectionStep == sent # <<>> /\ sent[Len(sent)].outcome = "pending" /\ sent' = Settle("rejected")

\* C17: the step that handles a rejected submit leaves players, the set
\* column count, the match date and the match time as they were, shows a
\* submit error and puts isSubmitting back to false; while the user changes
\* nothing, the state stays the one the rejected report was built from and
\* the next submit sends the same teams, labels, date and time; after a
\* successful submit the view is reset.
C17_RejectionKeepsTheReport ==
    /\ []AfterSubmit
    /\ [][RejectionStep =>
             /\ UNCHANGED <<tablePlayers, setColumnCount, matchDate, matchTime>>
             /\ submitError' # NullStr
             /\ ~isSubmitting']_vars

\* a report was rejected with a conflict and sent again unchanged
C17_Witness ==
    /\ Len(sent) = 2
    /\ RejectedUntouched(1)
    /\ sent[1].matchDate = Chars("2024-03-15")
    /\ sent[2].outcome = "rejected"
    /\ submitError = ConflictMessage
    /\ SameReport(sent[2].payload, sent[1].payload)
    /\ sent[2].payload.generatedAt # sent[1].payload.generatedAt

\* C23: at most one parsePDF call is in flight at any time, and the players
\* shown were parsed from the most recently selected document.
C23_OneParseInFlight ==
    /\ Cardinality(parseInFlight) <= 1
    /\ tablePlayers # <<>> => shownSelection = selections

-----------------------------------------------------------------------------
(* Specification of UploadManager over a bounded number of uploads *)

InitManager ==
    /\ IdleManager
    /\ IdleParse /\ IdleExtract /\ IdleMap /\ IdleGroup /\ IdleMeta /\ IdlePayload /\ IdleLayout /\ IdleSlice /\ IdleUpload /\ IdleAuth /\ IdleProfile /\ IdleSubmit /\ IdleStorage

NextManager ==
    \/ handleFileChange
    \/ createSession
    \/ SessionCreated
    \/ CreateSessionFails
    \/ PartUploaded
    \/ LastPartUploaded
    \/ UploadAborted
    \/ UploadFails
    \/ CompleteResolves
    \/ CompleteRejects
    \/ cancelUpload
    \/ CancelSettles
    \/ DismissSuccess

SpecManager == InitManager /\ [][NextManager]_vars

-----------------------------------------------------------------------------
(* Claims about UploadManager *)

\* C27: once cancelUpload has been invoked for an upload, no part request
\* and no complete call is issued for it, no completed-upload record is
\* written for it, and its chain does not set the status to error.
C27_CancelIsFinal == afterCancel = {}

-----------------------------------------------------------------------------
(* Specification of recordCompletedUpload over bounded sequences of calls *)

MaxRecords == 3

UserIds == {NullStr, Chars("u1"), Chars("u2")}

UploadPayloads ==
    {NullRec,
     [fileKey |-> NullStr, bucket |-> Chars("b")],
     [fileKey |-> Chars("videos/a.mp4"), bucket |-> Chars("b")],
     [fileKey |-> Chars("videos/b.mp4"), bucket |-> Undefined]}

\* the n uploads a user recorded before, the i-th of them as call i
EarlierEntry(i) == [id |-> i, uploadedAt |-> i, fileKey |-> Chars("videos/old.mp4"), bucket |-> Chars("b")]

EarlierCounts == {0, 1, MAX_ENTRIES_PER_USER - 1, MAX_ENTRIES_PER_USER}

InitStorage ==
    /\ \E n \in EarlierCounts :
          /\ recordLog = [i \in 1..n |-> [owner |-> Chars("u1"), entry |-> EarlierEntry(i),
                                          written |-> TRUE]]
          /\ storedUploads = IF n = 0 THEN <<>>
                             ELSE WithList(<<>>, Chars("u1"), [i \in 1..n |-> EarlierEntry(n + 1 - i)])
          /\ lastEntry = IF n = 0 THEN NullRec ELSE EarlierEntry(n)
    /\ IdleParse /\ IdleExtract /\ IdleMap /\ IdleGroup /\ IdleMeta /\ IdlePayload /\ IdleLayout /\ IdleSlice /\ IdleUpload /\ IdleAuth /\ IdleProfile /\ IdleSubmit /\ IdleManager

\* the calls made after those of the initial state
NewCalls ==
    Cardinality({i \in 1..Len(recordLog) :
                    \/ recordLog[i].entry = NullRec
                    \/ recordLog[i].entry.fileKey # Chars("videos/old.mp4")})

RecordCompletedUpload ==
    /\ NewCalls < MaxRecords
    /\ \E userId \in UserIds, uploadPayload \in UploadPayloads, written \in BOOLEAN :
          recordCompletedUpload(userId, uploadPayload, Len(recordLog) + 1, written)
    /\ UNCHANGED exceptStorage

NextStorage == RecordCompletedUpload

SpecStorage == InitStorage /\ [][NextStorage]_vars

-----------------------------------------------------------------------------
(* Claims about recordCompletedUpload *)

OwnerKeys == {FALLBACK_USER, Chars("u1"), Chars("u2")}

\* the entries among the first n calls that chosen(call) holds for and that
\* were recorded for ownerKey, newest first, as they are stored
RECURSIVE RecordedFor(_, _, _)
RecordedFor(ownerKey, n, needWritten) ==
    IF n = 0 THEN <<>>
    ELSE IF /\ recordLog[n].entry # NullRec
            /\ recordLog[n].owner = ownerKey
            /\ (needWritten => recordLog[n].written)
         THEN <<StoredForm(recordLog[n].entry)>> \o RecordedFor(ownerKey, n - 1, needWritten)
         ELSE RecordedFor(ownerKey, n - 1, needWritten)

\* a call with a payload without fileKey returned null
NullForNoFileKey ==
    recordLog # <<>> =>
        (recordLog[Len(recordLog)].entry = NullRec <=> lastEntry = NullRec)

\* C29 as stated: the stored list of each user is the 25 most recently
\* recorded entries of that user (those recordCompletedUpload returned),
\* newest first, and at most 25 of them; a payload without fileKey records
\* nothing and returns null.
C29_ListIsTheLatestRecorded ==
    /\ \A ownerKey \in OwnerKeys :
          /\ Len(ListOf(storedUploads, ownerKey)) <= 25
          /\ ListOf(storedUploads, ownerKey) =
                SliceFromStart(RecordedFor(ownerKey, Len(recordLog), FALSE), 25)
    /\ NullForNoFileKey

\* C29, amended: the stored list of each user is the 25 most recently
\* recorded entries of that user whose write to localStorage succeeded,
\* newest first.
C29_ListIsTheLatestWritten ==
    /\ \A ownerKey \in OwnerKeys :
          /\ Len(ListOf(storedUploads, ownerKey)) <= 25
          /\ ListOf(storedUploads, ownerKey) =
                SliceFromStart(RecordedFor(ownerKey, Len(recordLog), TRUE), 25)
    /\ DOMAIN storedUploads \subseteq OwnerKeys
    /\ NullForNoFileKey

\* a user with 25 entries recorded two more, between them another user one
C29_Witness ==
    /\ Len(recordLog) = MAX_ENTRIES_PER_USER + 3
    /\ \A i \in 1..Len(recordLog) : recordLog[i].written
    /\ recordLog[26].owner = Chars("u1") /\ recordLog[27].owner = Chars("u2")
    /\ recordLog[28].owner = Chars("u1")
    /\ Len(storedUploads[Chars("u1")]) = 25
    /\ storedUploads[Chars("u1")][1].id = 28
    /\ storedUploads[Chars("u1")][25].id = 3
    /\ Len(storedUploads[Chars("u2")]) = 1

====
